---- MODULE Spec2Model ----
(***************************************************************************)
(* Auction-based multi-robot task allocation (ropod-project/mrta).         *)
(*                                                                         *)
(* The model covers the auction round (mrs/allocation/round.py), the       *)
(* bidder (mrs/allocation/bidder.py), the allocator's timetable manager    *)
(* (mrs/timetable/manager.py), the allocation observer (mrs/allocate.py)   *)
(* and the robot's recovery path (mrs/robot.py).  The auctioneer, the Bid  *)
(* class, the bidding rule and the dispatcher are not part of the source   *)
(* tree; they are modelled from the specification text.                    *)
(*                                                                         *)
(* Robot ids "robot_00n" are the pairs <<"robot", n>>, task ids are        *)
(* integers ordered like the opaque ids, Python's None is the value None   *)
(* for metrics and the record Null for objects.                            *)
(***************************************************************************)
EXTENDS Integers, Sequences, FiniteSets, TLC

\* ---------------------------------------------------------------- bounds
MaxRounds == 2
MaxRecoveries == 1

\* ------------------------------------------------------ program constants
RoundTime == 5
NTasksQueue == 3

\* the clock stops at the closure time of the last round
MaxTime == MaxRounds * RoundTime

\* ----------------------------------------------------------------- values
None == 0 - 1
Null == [null |-> TRUE]
AltStart == 1

\* the fleet robot_001, robot_002 and the batch of tasks
RobotIds == {<<"robot", 1>>, <<"robot", 2>>}
Tasks == {1, 2}
RiskValues == {0}
TemporalValues == {1, 2}
Costs == RiskValues \X TemporalValues

\* ----------------------------------------------------------------- graphs
\* a timetable's stn is represented by the sequence of the tasks it holds
\* a dispatchable graph holds the tasks of the stn it was computed from, with
\* the constraints shrunk by the solver (solved).  The metrics of a graph are
\* carried by the bid computed from it.
Graph(tasks, solved) == [tasks |-> tasks, solved |-> solved]

\* stp_solver.get_stn(): a new graph without tasks
get_stn == Graph(<<>>, FALSE)

\* stp_solver.solve(stn) when the stn is consistent
solve(stn) == Graph(stn, TRUE)

\* the timepoints of a task in an stn, in order
NodeTypes == <<"start", "pickup", "delivery">>

NodeKeys == Tasks \X {1, 2, 3}

\* a timepoint: its assigned time (None: not assigned) and whether it is
\* executed; Absent for a timepoint that is not in the stn
Node(time, executed) == [time |-> time, executed |-> executed]

Absent == [absent |-> TRUE]

AssignedTimes == {1, 2}

\* Timetable.store: the stored copy of a timetable
Stored(stn, dispatchable_graph) ==
    [stn |-> stn, dispatchable_graph |-> dispatchable_graph]

\* ------------------------------------------------------------------- Bid
\* Bid(robot_id, round_id, task_id) with no metrics is a no-bid
Bid(robot_id, round_id, task_id, cost, insertion_point, stn, dispatchable_graph, alt) ==
    [robot_id |-> robot_id, round_id |-> round_id, task_id |-> task_id,
     risk_metric |-> cost[1], temporal_metric |-> cost[2],
     insertion_point |-> insertion_point, stn |-> stn,
     dispatchable_graph |-> dispatchable_graph,
     alternative_start_time |-> alt]

NoBid(robot_id, round_id, task_id) ==
    Bid(robot_id, round_id, task_id, <<None, None>>, None, <<>>, get_stn, None)

BidCost(bid) == <<bid.risk_metric, bid.temporal_metric>>

\* Python tuple comparison of two costs
CostLT(a, b) == a[1] < b[1] \/ (a[1] = b[1] /\ a[2] < b[2])

BidLT(a, b) == CostLT(BidCost(a), BidCost(b))

BidEQ(a, b) == BidCost(a) = BidCost(b)

\* int(robot_id.split('_')[-1])
RobotSuffix(robot_id) == robot_id[Len(robot_id)]

\* the TASK-CONTRACT message
TaskContract(task_id, robot_id, round_id) ==
    [task_id |-> task_id, robot_id |-> robot_id, round_id |-> round_id]

\* ----------------------------------------------------------------- Round
Put(f, k, v) == [x \in DOMAIN f \cup {k} |-> IF x = k THEN v ELSE f[x]]

EmptyDict == [x \in {} |-> Null]

\* Round.__init__
NewRound(id, alternative_timeslots) ==
    [id |-> id, alternative_timeslots |-> alternative_timeslots,
     closure_time |-> 0, finished |-> TRUE, opened |-> FALSE,
     received_bids |-> EmptyDict, order |-> <<>>,
     received_no_bids |-> EmptyDict]

\* faulty variant (C27): start opens the round and leaves it finished
RoundStart_stays_finished(rd, t) ==
    [rd EXCEPT !.closure_time = t + RoundTime, !.opened = TRUE]

\* Round.start
RoundStart(rd, t) ==
    [rd EXCEPT !.closure_time = t + RoundTime, !.finished = FALSE, !.opened = TRUE]

\* faulty variant (C5): without the robot id as tie-breaker, the later of two
\* equal bids replaces the earlier
update_task_bid_no_tie_break(new_bid, old_bid) ==
    BidLT(new_bid, old_bid) \/ BidEQ(new_bid, old_bid)

\* Round.update_task_bid
update_task_bid(new_bid, old_bid) ==
    LET old_robot_id == RobotSuffix(old_bid.robot_id)
        new_robot_id == RobotSuffix(new_bid.robot_id)
    IN  BidLT(new_bid, old_bid) \/ (BidEQ(new_bid, old_bid) /\ new_robot_id < old_robot_id)

\* faulty variant (C7): a no-bid is also kept as the task's bid
process_bid_keeps_no_bid(rd, bid) ==
    LET kept == IF bid.task_id \notin DOMAIN rd.received_bids
                THEN [rd EXCEPT !.received_bids = Put(@, bid.task_id, bid),
                                !.order = Append(@, bid.task_id)]
                ELSE IF update_task_bid(bid, rd.received_bids[bid.task_id])
                     THEN [rd EXCEPT !.received_bids = Put(@, bid.task_id, bid)]
                     ELSE rd
    IN  IF BidCost(bid) # <<None, None>>
        THEN kept
        ELSE [kept EXCEPT !.received_no_bids =
                 Put(@, bid.task_id,
                     (IF bid.task_id \in DOMAIN @ THEN @[bid.task_id] ELSE 0) + 1)]

\* faulty variant (C8): the counter of no-bids is set to one instead of
\* incremented
process_bid_no_bid_resets(rd, bid) ==
    IF BidCost(bid) # <<None, None>>
    THEN IF bid.task_id \notin DOMAIN rd.received_bids
         THEN [rd EXCEPT !.received_bids = Put(@, bid.task_id, bid),
                         !.order = Append(@, bid.task_id)]
         ELSE IF update_task_bid(bid, rd.received_bids[bid.task_id])
              THEN [rd EXCEPT !.received_bids = Put(@, bid.task_id, bid)]
              ELSE rd
    ELSE [rd EXCEPT !.received_no_bids = Put(@, bid.task_id, 1)]

\* Round.process_bid
process_bid(rd, bid) ==
    IF BidCost(bid) # <<None, None>>
    THEN IF bid.task_id \notin DOMAIN rd.received_bids
         THEN [rd EXCEPT !.received_bids = Put(@, bid.task_id, bid),
                         !.order = Append(@, bid.task_id)]
         ELSE IF update_task_bid(bid, rd.received_bids[bid.task_id])
              THEN [rd EXCEPT !.received_bids = Put(@, bid.task_id, bid)]
              ELSE rd
    ELSE [rd EXCEPT !.received_no_bids =
              Put(@, bid.task_id,
                  (IF bid.task_id \in DOMAIN @ THEN @[bid.task_id] ELSE 0) + 1)]

\* faulty variant (C3): the comparison with closure_time is inverted
time_to_close_inverted(rd, current_time) ==
    IF current_time > rd.closure_time
    THEN [ret |-> FALSE, round |-> rd]
    ELSE [ret |-> TRUE, round |-> [rd EXCEPT !.opened = FALSE]]

\* faulty variant (C28): a round without a bid is not closed
time_to_close_waits_for_bids(rd, current_time) ==
    IF current_time < rd.closure_time \/ DOMAIN rd.received_bids = {}
    THEN [ret |-> FALSE, round |-> rd]
    ELSE [ret |-> TRUE, round |-> [rd EXCEPT !.opened = FALSE]]

\* Round.time_to_close: the returned value and the round afterwards
time_to_close(rd, current_time) ==
    IF current_time < rd.closure_time
    THEN [ret |-> FALSE, round |-> rd]
    ELSE [ret |-> TRUE, round |-> [rd EXCEPT !.opened = FALSE]]

\* Round.finish
RoundFinish(rd) == [rd EXCEPT !.finished = TRUE]

\* the loop of Round.elect_winner over received_bids.items(), in dict order
RECURSIVE ElectLoop(_, _, _)
ElectLoop(rd, i, lowest_bid) ==
    IF i > Len(rd.order) THEN lowest_bid
    ELSE LET bid == rd.received_bids[rd.order[i]]
         IN  IF lowest_bid = Null
                \/ BidLT(bid, lowest_bid)
                \/ (BidEQ(bid, lowest_bid) /\ bid.task_id < lowest_bid.task_id)
             THEN ElectLoop(rd, i + 1, bid)
             ELSE ElectLoop(rd, i + 1, lowest_bid)

\* faulty variant (C2): among bids of equal cost the higher task id wins
RECURSIVE ElectLoopHigherTask(_, _, _)
ElectLoopHigherTask(rd, i, lowest_bid) ==
    IF i > Len(rd.order) THEN lowest_bid
    ELSE LET bid == rd.received_bids[rd.order[i]]
         IN  IF lowest_bid = Null
                \/ BidLT(bid, lowest_bid)
                \/ (BidEQ(bid, lowest_bid) /\ bid.task_id > lowest_bid.task_id)
             THEN ElectLoopHigherTask(rd, i + 1, bid)
             ELSE ElectLoopHigherTask(rd, i + 1, lowest_bid)

elect_winner_higher_task(rd) == ElectLoopHigherTask(rd, 1, Null)

\* Round.elect_winner: Null stands for raise NoAllocation(self.id)
elect_winner(rd) == ElectLoop(rd, 1, Null)

\* faulty variant (C9): every task with a no-bid is relaxed, bid or not
set_soft_constraints_all(rd) == DOMAIN rd.received_no_bids

\* Round.set_soft_constraints: the tasks whose constraints are set to soft
set_soft_constraints(rd) ==
    {task_id \in DOMAIN rd.received_no_bids : task_id \notin DOMAIN rd.received_bids}

\* truth value of an optional number in a Python condition
Truthy(x) == x # None /\ x # 0

\* faulty variant (C10): an alternative start time ends the closing without
\* a winner
get_result_alt_fatal(rd) ==
    LET relaxed == IF rd.alternative_timeslots /\ DOMAIN rd.received_no_bids # {}
                   THEN set_soft_constraints(rd) ELSE {}
        winning_bid == elect_winner(rd)
    IN  IF winning_bid = Null \/ Truthy(winning_bid.alternative_start_time)
        THEN [kind |-> "NoAllocation", bid |-> Null, round_id |-> rd.id, relaxed |-> relaxed]
        ELSE [kind |-> "result", bid |-> winning_bid,
              round_id |-> rd.id, relaxed |-> relaxed]

\* faulty variant (C33): the round relaxes whether alternative_timeslots is
\* on or not
get_result_relaxes_always(rd) ==
    LET relaxed == IF DOMAIN rd.received_no_bids # {}
                   THEN set_soft_constraints(rd) ELSE {}
        winning_bid == elect_winner(rd)
    IN  IF winning_bid = Null
        THEN [kind |-> "NoAllocation", bid |-> Null, round_id |-> rd.id, relaxed |-> relaxed]
        ELSE IF Truthy(winning_bid.alternative_start_time)
             THEN [kind |-> "AlternativeTimeSlot", bid |-> winning_bid,
                   round_id |-> rd.id, relaxed |-> relaxed]
             ELSE [kind |-> "result", bid |-> winning_bid,
                   round_id |-> rd.id, relaxed |-> relaxed]

\* Round.get_result: outcome (returned result or raised exception) and the
\* tasks relaxed on the way
get_result(rd) ==
    LET relaxed == IF rd.alternative_timeslots /\ DOMAIN rd.received_no_bids # {}
                   THEN set_soft_constraints(rd) ELSE {}
        winning_bid == elect_winner(rd)
    IN  IF winning_bid = Null
        THEN [kind |-> "NoAllocation", bid |-> Null, round_id |-> rd.id, relaxed |-> relaxed]
        ELSE IF Truthy(winning_bid.alternative_start_time)
             THEN [kind |-> "AlternativeTimeSlot", bid |-> winning_bid,
                   round_id |-> rd.id, relaxed |-> relaxed]
             ELSE [kind |-> "result", bid |-> winning_bid,
                   round_id |-> rd.id, relaxed |-> relaxed]

\* ------------------------------------------------------------ timetables
InsertAt(seq, i, x) == SubSeq(seq, 1, i - 1) \o <<x>> \o SubSeq(seq, i, Len(seq))

SeqRange(seq) == {seq[i] : i \in 1..Len(seq)}

RemoveTask(seq, x) == SelectSeq(seq, LAMBDA y : y # x)

\* Timetable.remove_task_from_dispatchable_graph
RemoveFromGraph(graph, x) == [graph EXCEPT !.tasks = RemoveTask(@, x)]

\* get_subgraph(n_tasks): the first n_tasks tasks
SubGraph(seq, n_tasks) ==
    SubSeq(seq, 1, IF Len(seq) < n_tasks THEN Len(seq) ELSE n_tasks)

\* ascending list of a set of task ids
RECURSIVE SortedSeq(_)
SortedSeq(S) ==
    IF S = {} THEN <<>>
    ELSE LET m == CHOOSE x \in S : \A y \in S : x <= y
         IN  <<m>> \o SortedSeq(S \ {m})

\* ------------------------------------------------------------------ state
VARIABLES
    now,                    \* wall clock
    alternative_timeslots,  \* configuration of the auctioneer
    round,                  \* the auctioneer's Round object
    tasks_to_allocate,      \* auctioneer: tasks still to be announced
    task_status,            \* task records: status
    hard_constraints,       \* task records: hard (TRUE) or soft (FALSE)
    assigned_robots,        \* task records: list of assigned robots
    announce_net,           \* TASK-ANNOUNCEMENT messages in flight
    bid_net,                \* BID / NO-BID messages in flight
    contract_net,           \* TASK-CONTRACT messages in flight
    bid_placed,             \* Bidder.bid_placed of every robot
    timetable,              \* stn of every robot's Timetable
    dispatchable_graph,     \* dispatchable_graph of every robot's Timetable
    robot_store,            \* the row of each robot's timetable in the robot's store
    shadow,                 \* TimetableManager.timetables: stn
    shadow_graph,           \* TimetableManager.timetables: dispatchable_graph
    shadow_store,           \* the stored copies of TimetableManager.timetables
    send_update_to,         \* TimetableManager.send_update_to
    allocations,            \* Allocate.allocations
    acks,                   \* TASK-CONTRACT-ACKNOWLEDGEMENT messages sent
    dispatched,             \* dispatcher: tasks frozen and sent to their robot
    task_net,               \* TASK messages in flight
    queue_net,              \* DISPATCH-QUEUE-UPDATE messages in flight
    status_net,             \* TASK-STATUS messages in flight
    queue_update_received,  \* Robot.queue_update_received
    recoveries,             \* history: number of re-allocations per task
    contracts,              \* history: every TaskContract emitted, in order
    allocate_log,           \* history: the contracts Allocate received, in order
    processed,              \* history: bids handed to the current round
    closing,                \* history: what the latest round closing did
    bidding,                \* history: what the latest task_announcement_cb did
    stn_nodes,              \* the timepoints of the stn of one Timetable
    graph_nodes,            \* the timepoints of its dispatchable graph
    monitor,                \* one Timetable's checks of the next task
    last_call,              \* history: the latest call on the Timetable and its outcome
    zero_timepoint,         \* the zero timepoints of the robots' and the manager's timetables
    robot_loop              \* one Robot: its tasks, its timetable, what it sent

vars == <<now, alternative_timeslots, round, tasks_to_allocate, task_status,
          hard_constraints, assigned_robots, announce_net, bid_net,
          contract_net, bid_placed, timetable, dispatchable_graph, robot_store,
          shadow,
          shadow_graph, shadow_store, send_update_to, allocations, acks, dispatched, task_net, queue_net, status_net,
          queue_update_received, recoveries, contracts, allocate_log,
          processed, closing, bidding, stn_nodes, graph_nodes, last_call, monitor, zero_timepoint, robot_loop>>

execution_vars == <<dispatched, task_net, queue_net, status_net,
                    queue_update_received, recoveries>>

history_vars == <<contracts, allocate_log, processed, closing, bidding>>

AllocateNode == <<"allocate", 0>>
NoRobot == <<>>

NoBidding == [robot_id |-> NoRobot, round_id |-> 0, tasks |-> {},
              tried |-> {}, outcome |-> <<>>, sent |-> {}, raised |-> FALSE,
              planner |-> FALSE, travel_time |-> None, error |-> "none"]

\* a Timetable as built: its ztp is the simulator interface's init_ztp(), and
\* it has no attribute zero_timepoint of its own (None)
InitZtp == 2

NewTimetableZtp == [ztp |-> InitZtp, zero_timepoint |-> None]

\* the zero timepoints: alias says whether the Timetable's base class makes
\* zero_timepoint and update_zero_timepoint other names of ztp and update_ztp;
\* robots are the robots' timetables, manager the registered ones,
\* robot_store and manager_store the stored ztp (None: no stored timetable)
NoZtp == [alias |-> FALSE,
          robots |-> [r \in RobotIds |-> NewTimetableZtp],
          manager |-> <<>>,
          robot_store |-> [r \in RobotIds |-> None],
          manager_store |-> [r \in RobotIds |-> None],
          op |-> "none", robot_id |-> NoRobot, time |-> None, raised |-> FALSE]

\* the tasks of the robot whose loop is followed on its own
LoopTasks == {1, 2, 3}

RecoveryMethods == {"re-allocate", "re-schedule-1", "abort"}

MaxUpdates == 2

\* a robot with no task
NoLoop == [recovery_method |-> "re-allocate", stn |-> <<>>,
           status |-> [t \in LoopTasks |-> "UNALLOCATED"], late |-> {},
           delayed |-> {}, sent |-> {}, updates |-> 0,
           queue_update_received |-> FALSE, fired |-> {},
           terminated |-> FALSE, task_net |-> {}]

NoClosing == [round_id |-> 0, kind |-> "none", bid |-> Null, relaxed |-> {},
              committed |-> FALSE, closed_at |-> 0]

\* no call made yet
NoCall == [op |-> "none", args |-> <<>>, raised |-> FALSE]

\* no task in execution: nothing for the Timetable to check
NoMonitor ==
    [actions |-> <<>>, stn_time |-> <<>>, finish_current |-> 0,
     earliest_start_next |-> 0, latest_start_next |-> 0,
     call |-> "none", ret |-> FALSE]

\* the state after construction, for a configuration of the auctioneer and
\* a batch of requested tasks
InitWith(alt, batch, loops, monitors, ztps) ==
    /\ now = 0
    /\ alternative_timeslots = alt
    /\ round = NewRound(0, alt)
    /\ tasks_to_allocate = batch
    /\ task_status = [t \in Tasks |-> "UNALLOCATED"]
    /\ hard_constraints = [t \in Tasks |-> TRUE]
    /\ assigned_robots = [t \in Tasks |-> <<>>]
    /\ announce_net = {}
    /\ bid_net = {}
    /\ contract_net = {}
    /\ bid_placed = [r \in RobotIds |-> Null]
    /\ timetable = [r \in RobotIds |-> <<>>]
    /\ dispatchable_graph = [r \in RobotIds |-> get_stn]
    /\ robot_store = [r \in RobotIds |-> Stored(<<>>, get_stn)]
    /\ shadow = [r \in RobotIds |-> <<>>]
    /\ shadow_graph = [r \in RobotIds |-> get_stn]
    /\ shadow_store = [r \in RobotIds |-> Stored(<<>>, get_stn)]
    /\ send_update_to = NoRobot
    /\ allocations = EmptyDict
    /\ acks = {}
    /\ dispatched = {}
    /\ task_net = {}
    /\ queue_net = {}
    /\ status_net = {}
    /\ queue_update_received = [r \in RobotIds |-> FALSE]
    /\ recoveries = [t \in Tasks |-> 0]
    /\ contracts = <<>>
    /\ allocate_log = <<>>
    /\ processed = {}
    /\ closing = NoClosing
    /\ bidding = NoBidding
    /\ stn_nodes = [k \in NodeKeys |-> Absent]
    /\ graph_nodes = [k \in NodeKeys |-> Absent]
    /\ monitor \in monitors
    /\ last_call = NoCall
    /\ zero_timepoint \in ztps
    /\ robot_loop \in loops

\* ------------------------------------------------------------------ clock
\* the clock is read by Round.start and Round.time_to_close only, and compared
\* with closure_time only: the instants before the closure time of the open
\* round are not told apart, nor are the instants from it on
Tick ==
    /\ now < MaxTime
    /\ round.opened
    /\ now < round.closure_time
    /\ now' = round.closure_time
    /\ UNCHANGED <<alternative_timeslots, round, tasks_to_allocate, task_status,
                   hard_constraints, assigned_robots, announce_net, bid_net,
                   contract_net, bid_placed, timetable, dispatchable_graph, robot_store, shadow, shadow_graph, shadow_store, send_update_to,
                   allocations, acks, contracts, processed, closing,
                   allocate_log, bidding, stn_nodes, graph_nodes, last_call, monitor, zero_timepoint, robot_loop, execution_vars>>

\* ----------------------------------------------------------------- Bidder
\* the loop of Bidder.get_smallest_bid over the list of bids
RECURSIVE SmallestLoop(_, _, _)
SmallestLoop(bids, i, smallest_bid) ==
    IF i > Len(bids) THEN smallest_bid
    ELSE LET bid == bids[i]
         IN  IF smallest_bid = Null
                \/ BidLT(bid, smallest_bid)
                \/ (BidEQ(bid, smallest_bid) /\ bid.task_id < smallest_bid.task_id)
             THEN SmallestLoop(bids, i + 1, bid)
             ELSE SmallestLoop(bids, i + 1, smallest_bid)

get_smallest_bid(bids) == SmallestLoop(bids, 1, Null)

\* Bidder.insert_task / insert_in: the insertion points that are tried, i.e.
\* 1..n_tasks+1 without the positions that hold a task past ALLOCATED
InsertionPoints(r) ==
    {ip \in 1..(Len(timetable[r]) + 1) :
        ip > Len(timetable[r]) \/ task_status[timetable[r][ip]] = "ALLOCATED"}

\* outcome of BiddingRule.compute_bid at one insertion point: the metrics of
\* the bid, or NoSTPSolution.  The metrics come from the bidding rule and the
\* STN solver, which are external.
NoSTPSolution == <<None, None>>

IpOutcomes(r) == [InsertionPoints(r) -> Costs \cup {NoSTPSolution}]

\* STNInterface.solve_stp: the stn with the task inserted and its dispatchable
\* graph, when the stn is consistent
solve_stp(stn, task_id, insertion_point) ==
    [stn |-> InsertAt(stn, insertion_point, task_id),
     dispatchable_graph |-> solve(InsertAt(stn, insertion_point, task_id))]

\* BiddingRule.compute_bid: the bid carries the stn with the task inserted and
\* the dispatchable graph its metrics were computed from; a task with soft
\* constraints is bid for with an alternative start time
compute_bid(r, round_id, task_id, insertion_point, cost, soft) ==
    LET solved == solve_stp(timetable[r], task_id, insertion_point)
    IN  Bid(r, round_id, task_id, cost, insertion_point, solved.stn,
            solved.dispatchable_graph,
            IF task_id \in soft THEN AltStart ELSE None)

\* faulty variant (C40): a bid of equal cost at a later insertion point takes
\* the place of the best bid
RECURSIVE InsertLoop_last_on_tie(_, _, _, _, _, _, _)
InsertLoop_last_on_tie(r, round_id, task_id, outcome, soft, insertion_point, best_bid) ==
    IF insertion_point > Len(timetable[r]) + 1 THEN best_bid
    ELSE IF insertion_point \notin InsertionPoints(r)
         THEN InsertLoop_last_on_tie(r, round_id, task_id, outcome, soft, insertion_point + 1, best_bid)
    ELSE IF outcome[insertion_point] = NoSTPSolution
         THEN InsertLoop_last_on_tie(r, round_id, task_id, outcome, soft, insertion_point + 1, best_bid)
    ELSE LET bid == compute_bid(r, round_id, task_id, insertion_point,
                                outcome[insertion_point], soft)
         IN  IF best_bid = Null
                \/ BidLT(bid, best_bid)
                \/ BidEQ(bid, best_bid)
             THEN InsertLoop_last_on_tie(r, round_id, task_id, outcome, soft, insertion_point + 1, bid)
             ELSE InsertLoop_last_on_tie(r, round_id, task_id, outcome, soft, insertion_point + 1, best_bid)

\* the loop of Bidder.insert_task over the insertion points 1..n_tasks+1
RECURSIVE InsertLoop(_, _, _, _, _, _, _)
InsertLoop(r, round_id, task_id, outcome, soft, insertion_point, best_bid) ==
    IF insertion_point > Len(timetable[r]) + 1 THEN best_bid
    ELSE IF insertion_point \notin InsertionPoints(r)
         THEN InsertLoop(r, round_id, task_id, outcome, soft, insertion_point + 1, best_bid)
    ELSE IF outcome[insertion_point] = NoSTPSolution
         THEN InsertLoop(r, round_id, task_id, outcome, soft, insertion_point + 1, best_bid)
    ELSE LET bid == compute_bid(r, round_id, task_id, insertion_point,
                                outcome[insertion_point], soft)
         IN  IF best_bid = Null
                \/ BidLT(bid, best_bid)
                \/ (BidEQ(bid, best_bid) /\ bid.task_id < best_bid.task_id)
             THEN InsertLoop(r, round_id, task_id, outcome, soft, insertion_point + 1, bid)
             ELSE InsertLoop(r, round_id, task_id, outcome, soft, insertion_point + 1, best_bid)

\* Bidder.insert_task: the best bid for one task, Null when no insertion point
\* gave a bid
insert_task(r, round_id, task_id, outcome, soft) ==
    InsertLoop(r, round_id, task_id, outcome, soft, 1, Null)

\* Bidder.compute_bids: the bid and the no-bids handed to send_bids.
\* outcome[t][ip] is what compute_bid gives for task t at insertion point ip
compute_bids(r, m, outcome) ==
    LET tasks == SortedSeq(m.tasks)
        best_bid == [t \in m.tasks |-> insert_task(r, m.round_id, t, outcome[t], m.soft)]
        with_bid == SelectSeq(tasks, LAMBDA t : best_bid[t] # Null)
        bids == [i \in 1..Len(with_bid) |-> best_bid[with_bid[i]]]
    IN  [bid |-> get_smallest_bid(bids),
         no_bids |-> {NoBid(r, m.round_id, t) : t \in {x \in m.tasks : best_bid[x] = Null}}]

\* Bidder.send_bids: bid_placed and the messages sent
send_bids(r, placed, bid, no_bids) ==
    [bid_placed |-> IF bid # Null THEN [placed EXCEPT ![r] = bid] ELSE placed,
     sent |-> no_bids \cup (IF bid # Null THEN {bid} ELSE {})]

\* what Bidder.insert_task can return for one task: the metrics and the
\* insertion point of the best bid, or NoBest when no insertion point gave one
NoBest == <<None, None, None>>

BestChoices(r) == {NoBest} \cup
    {<<c[1], c[2], ip>> : c \in Costs, ip \in InsertionPoints(r)}

BestBid(r, round_id, task_id, best, soft) ==
    compute_bid(r, round_id, task_id, best[3], <<best[1], best[2]>>, soft)

\* Timetable.fetch of the robot's timetable
fetch(r) ==
    /\ timetable' = [timetable EXCEPT ![r] = robot_store[r].stn]
    /\ dispatchable_graph' =
           [dispatchable_graph EXCEPT ![r] = robot_store[r].dispatchable_graph]

\* Bidder.task_announcement_cb -> compute_bids -> send_bids, when insert_in
\* gets no task (rather than TaskNotFound) at a position that holds none
TaskAnnouncementCb(r) ==
    \E m \in announce_net :
        /\ m.to = r
        /\ announce_net' = announce_net \ {m}
        /\ \E best \in [m.tasks -> BestChoices(r)] :
             LET tasks == SortedSeq(m.tasks)
                 with_bid == SelectSeq(tasks, LAMBDA t : best[t] # NoBest)
                 bids == [i \in 1..Len(with_bid) |->
                             BestBid(r, m.round_id, with_bid[i], best[with_bid[i]], m.soft)]
                 no_bids == {NoBid(r, m.round_id, t) : t \in {x \in m.tasks : best[x] = NoBest}}
                 out == send_bids(r, bid_placed, get_smallest_bid(bids), no_bids)
             IN  /\ bid_placed' = out.bid_placed
                 /\ bid_net' = bid_net \cup out.sent
        /\ fetch(r)
        /\ UNCHANGED <<now, alternative_timeslots, round, tasks_to_allocate,
                       task_status, hard_constraints, assigned_robots,
                       contract_net, robot_store, shadow, shadow_graph, shadow_store, send_update_to,
                       allocations, acks, contracts, processed, closing,
                   allocate_log, bidding, stn_nodes, graph_nodes, last_call, monitor, zero_timepoint, robot_loop, execution_vars>>

\* Bidder.task_announcement_cb when an exception leaves the callback before
\* send_bids: Timetable.get_task raises TaskNotFound at a position that holds
\* no task, which insert_in probes at the append position; a store or
\* planner failure
TaskAnnouncementFails(r) ==
    \E m \in announce_net :
        /\ m.to = r
        /\ announce_net' = announce_net \ {m}
        /\ fetch(r)
        /\ UNCHANGED <<now, alternative_timeslots, round, tasks_to_allocate,
                       task_status, hard_constraints, assigned_robots, bid_net,
                       contract_net, bid_placed, robot_store, shadow, shadow_graph, shadow_store,
                       send_update_to, allocations, acks, contracts, processed,
                       closing,
                   allocate_log, bidding, stn_nodes, graph_nodes, last_call, monitor, zero_timepoint, robot_loop, execution_vars>>

\* faulty variant (C6): the task of the robot's latest bid is marked instead
\* of the task of the contract
allocate_to_robot_bid_task(r, task_id) ==
    /\ timetable' = [timetable EXCEPT ![r] = bid_placed[r].stn]
    /\ dispatchable_graph' =
           [dispatchable_graph EXCEPT ![r] = bid_placed[r].dispatchable_graph]
    /\ robot_store' = [robot_store EXCEPT ![r] =
           Stored(bid_placed[r].stn, bid_placed[r].dispatchable_graph)]
    /\ task_status' = [task_status EXCEPT ![bid_placed[r].task_id] = "ALLOCATED"]
    /\ assigned_robots' = [assigned_robots EXCEPT ![bid_placed[r].task_id] = <<r>>]

\* faulty variant (C13): the stn of the bid is adopted without its
\* dispatchable graph
allocate_to_robot_stn_only(r, task_id) ==
    /\ timetable' = [timetable EXCEPT ![r] = bid_placed[r].stn]
    /\ dispatchable_graph' = dispatchable_graph
    /\ robot_store' = [robot_store EXCEPT ![r] =
           Stored(bid_placed[r].stn, dispatchable_graph[r])]
    /\ task_status' = [task_status EXCEPT ![task_id] = "ALLOCATED"]
    /\ assigned_robots' = [assigned_robots EXCEPT ![task_id] = <<r>>]

\* faulty variant (C21): the timetable is replaced and not stored
allocate_to_robot_not_stored(r, task_id) ==
    /\ timetable' = [timetable EXCEPT ![r] = bid_placed[r].stn]
    /\ dispatchable_graph' =
           [dispatchable_graph EXCEPT ![r] = bid_placed[r].dispatchable_graph]
    /\ robot_store' = robot_store
    /\ task_status' = [task_status EXCEPT ![task_id] = "ALLOCATED"]
    /\ assigned_robots' = [assigned_robots EXCEPT ![task_id] = <<r>>]

\* Bidder.allocate_to_robot
allocate_to_robot(r, task_id) ==
    /\ timetable' = [timetable EXCEPT ![r] = bid_placed[r].stn]
    /\ dispatchable_graph' =
           [dispatchable_graph EXCEPT ![r] = bid_placed[r].dispatchable_graph]
    /\ robot_store' = [robot_store EXCEPT ![r] =
           Stored(bid_placed[r].stn, bid_placed[r].dispatchable_graph)]
    /\ task_status' = [task_status EXCEPT ![task_id] = "ALLOCATED"]
    /\ assigned_robots' = [assigned_robots EXCEPT ![task_id] = <<r>>]

\* faulty variant (C37): the robot the contract names is not compared with
\* the robot that receives it
TaskContractCb_any_robot(r) ==
    \E c \in contract_net :
        /\ c.to = r
        /\ contract_net' = contract_net \ {c}
        /\ IF bid_placed[r] # Null
           THEN /\ allocate_to_robot(r, c.task_id)
                /\ acks' = acks \cup {[robot_id |-> r, task_id |-> c.task_id,
                                       round_id |-> c.round_id]}
           ELSE UNCHANGED <<timetable, dispatchable_graph, robot_store, task_status, assigned_robots, acks>>
        /\ UNCHANGED <<now, alternative_timeslots, round, tasks_to_allocate,
                       hard_constraints, announce_net, bid_net, bid_placed,
                       shadow, shadow_graph, shadow_store, send_update_to, allocations, contracts,
                       processed, closing,
                   allocate_log, bidding, stn_nodes, graph_nodes, last_call, monitor, zero_timepoint, robot_loop, execution_vars>>

\* Bidder.task_contract_cb (+ send_contract_acknowledgement)
TaskContractCb(r) ==
    \E c \in contract_net :
        /\ c.to = r
        /\ contract_net' = contract_net \ {c}
        /\ IF c.robot_id = r /\ bid_placed[r] # Null
           THEN /\ allocate_to_robot(r, c.task_id)
                /\ acks' = acks \cup {[robot_id |-> r, task_id |-> c.task_id,
                                       round_id |-> c.round_id]}
           ELSE UNCHANGED <<timetable, dispatchable_graph, robot_store, task_status, assigned_robots, acks>>
        /\ UNCHANGED <<now, alternative_timeslots, round, tasks_to_allocate,
                       hard_constraints, announce_net, bid_net, bid_placed,
                       shadow, shadow_graph, shadow_store, send_update_to, allocations, contracts,
                       processed, closing,
                   allocate_log, bidding, stn_nodes, graph_nodes, last_call, monitor, zero_timepoint, robot_loop, execution_vars>>

\* --------------------------------------------------------------- Allocate
\* faulty variant (C1): a task already in allocations keeps its first robot
update_allocations_keep_first(allocs, task_contract) ==
    IF task_contract.task_id \in DOMAIN allocs
    THEN allocs
    ELSE Put(allocs, task_contract.task_id, task_contract.robot_id)

\* Allocate.update_allocations
update_allocations(allocs, task_contract) ==
    Put(allocs, task_contract.task_id, task_contract.robot_id)

\* Allocate.receive_msg_cb for a TASK-CONTRACT message
AllocateReceive ==
    \E c \in contract_net :
        /\ c.to = AllocateNode
        /\ contract_net' = contract_net \ {c}
        /\ allocations' = update_allocations(allocations, c)
        /\ allocate_log' = Append(allocate_log, TaskContract(c.task_id, c.robot_id, c.round_id))
        /\ UNCHANGED <<now, alternative_timeslots, round, tasks_to_allocate,
                       task_status, hard_constraints, assigned_robots,
                       announce_net, bid_net, bid_placed, timetable, dispatchable_graph, robot_store, shadow, shadow_graph, shadow_store,
                       send_update_to, acks, contracts, processed, closing,
                   bidding, stn_nodes, graph_nodes, last_call, monitor, zero_timepoint, robot_loop, execution_vars>>

\* ------------------------------------------------------- TimetableManager
\* TimetableManager.update_timetable of manager.py: the manager's timetables,
\* their stored copies and send_update_to after the call; solved is the
\* outcome of solve_stp (FALSE: NoSTPSolution, re-raised as InvalidAllocation)
\* faulty variant (C26): the update is scheduled whatever the insertion point
update_timetable_any_point(tts, graphs, store, update_to, robot_id, insertion_point, task_id, solved) ==
    LET fetched_stn == store[robot_id].stn
        fetched_graph == store[robot_id].dispatchable_graph
    IN  IF solved
        THEN LET res == solve_stp(fetched_stn, task_id, insertion_point)
             IN  [raised |-> FALSE,
                  timetables |-> [tts EXCEPT ![robot_id] = res.stn],
                  graphs |-> [graphs EXCEPT ![robot_id] = res.dispatchable_graph],
                  store |-> [store EXCEPT ![robot_id] =
                                Stored(res.stn, res.dispatchable_graph)],
                  send_update_to |-> robot_id]
        ELSE [raised |-> TRUE,
              timetables |-> [tts EXCEPT ![robot_id] = fetched_stn],
              graphs |-> [graphs EXCEPT ![robot_id] = fetched_graph],
              store |-> store, send_update_to |-> update_to]

update_timetable(tts, graphs, store, update_to, robot_id, insertion_point, task_id, solved) ==
    LET fetched_stn == store[robot_id].stn
        fetched_graph == store[robot_id].dispatchable_graph
    IN  IF solved
        THEN LET res == solve_stp(fetched_stn, task_id, insertion_point)
             IN  [raised |-> FALSE,
                  timetables |-> [tts EXCEPT ![robot_id] = res.stn],
                  graphs |-> [graphs EXCEPT ![robot_id] = res.dispatchable_graph],
                  store |-> [store EXCEPT ![robot_id] =
                                Stored(res.stn, res.dispatchable_graph)],
                  send_update_to |-> IF insertion_point <= NTasksQueue
                                     THEN robot_id ELSE update_to]
        ELSE [raised |-> TRUE,
              timetables |-> [tts EXCEPT ![robot_id] = fetched_stn],
              graphs |-> [graphs EXCEPT ![robot_id] = fetched_graph],
              store |-> store, send_update_to |-> update_to]

\* TimetableManager.update_timetable of timetable.py: the task is inserted
\* in the timetable's stn, then the dispatchable graph is computed
dict_update_timetable(tts, graphs, store, update_to, robot_id, insertion_point, task_id, solved) ==
    LET stn == IF 1 <= insertion_point /\ insertion_point <= Len(tts[robot_id]) + 1
               THEN InsertAt(tts[robot_id], insertion_point, task_id)
               ELSE tts[robot_id]
    IN  IF solved
        THEN [raised |-> FALSE,
              timetables |-> [tts EXCEPT ![robot_id] = stn],
              graphs |-> [graphs EXCEPT ![robot_id] = solve(stn)],
              store |-> [store EXCEPT ![robot_id] = Stored(stn, solve(stn))],
              send_update_to |-> update_to]
        ELSE [raised |-> TRUE,
              timetables |-> [tts EXCEPT ![robot_id] = stn],
              graphs |-> graphs, store |-> store, send_update_to |-> update_to]

\* -------------------------------------------------------------- Auctioneer
\* the auctioneer announces the tasks to allocate in a new round.  Bids still
\* in flight belong to a finished round and BidCb can only drop them: they
\* are taken off the network here.  An announcement is handled within its
\* round or not at all (round_time absorbs the bidders' latency): a new
\* announcement supersedes the ones not handled yet.
Announce ==
    /\ tasks_to_allocate # {}
    /\ round.finished
    /\ round.id < MaxRounds
    /\ round' = RoundStart(NewRound(round.id + 1, alternative_timeslots), now)
    /\ announce_net' =
           {[to |-> r, round_id |-> round.id + 1, tasks |-> tasks_to_allocate,
             soft |-> {t \in tasks_to_allocate : ~hard_constraints[t]}] : r \in RobotIds}
    /\ processed' = {}
    /\ bid_net' = {}
    /\ UNCHANGED <<now, alternative_timeslots, tasks_to_allocate, task_status,
                   hard_constraints, assigned_robots, contract_net,
                   bid_placed, timetable, dispatchable_graph, robot_store, shadow, shadow_graph, shadow_store, send_update_to, allocations,
                   acks, contracts,
                   allocate_log, bidding, stn_nodes, graph_nodes, last_call, monitor, zero_timepoint, robot_loop, execution_vars>>
    /\ closing' = NoClosing

\* whether the auctioneer hands an arriving bid to the round: only while the
\* round the bid was placed for is open
BidAccepted(rd, bid) == rd.opened /\ bid.round_id = rd.id

\* the auctioneer's callback for BID and NO-BID messages
BidCb ==
    \E bid \in bid_net :
        /\ bid_net' = bid_net \ {bid}
        /\ IF BidAccepted(round, bid)
           THEN /\ round' = process_bid(round, bid)
                /\ processed' = processed \cup {bid}
           ELSE UNCHANGED <<round, processed>>
        /\ UNCHANGED <<now, alternative_timeslots, tasks_to_allocate,
                       task_status, hard_constraints, assigned_robots,
                       announce_net, contract_net, bid_placed, timetable, dispatchable_graph, robot_store,
                       shadow, shadow_graph, shadow_store, send_update_to, allocations, acks, contracts,
                       closing,
                   allocate_log, bidding, stn_nodes, graph_nodes, last_call, monitor, zero_timepoint, robot_loop, execution_vars>>

\* the update_timetable of the TimetableManager the auctioneer is built with
manager_update_timetable(manager, tts, graphs, store, update_to, robot_id, insertion_point, task_id, solved) ==
    IF manager = "manager.py"
    THEN update_timetable(tts, graphs, store, update_to, robot_id,
                          insertion_point, task_id, solved)
    ELSE dict_update_timetable(tts, graphs, store, update_to, robot_id,
                               insertion_point, task_id, solved)

\* the auctioneer's loop iteration that finds the round due: close, elect,
\* commit to the shadow timetable with the manager's update_timetable,
\* publish the contract, finish the round
CloseRoundWith(manager) ==
    /\ round.opened
    /\ time_to_close(round, now).ret
    /\ LET rd == time_to_close(round, now).round
           res == get_result(rd)
       IN  /\ hard_constraints' =
                  [t \in Tasks |-> IF t \in res.relaxed THEN FALSE ELSE hard_constraints[t]]
           /\ round' = RoundFinish(rd)
           /\ IF res.kind = "NoAllocation"
              THEN /\ closing' = [round_id |-> res.round_id, kind |-> res.kind, bid |-> Null,
                                  relaxed |-> res.relaxed, committed |-> FALSE,
                                  closed_at |-> now]
                   /\ UNCHANGED <<tasks_to_allocate, contract_net, shadow, shadow_graph, shadow_store,
                                  send_update_to, contracts>>
              ELSE \E solved \in BOOLEAN :
                   LET bid == res.bid
                       fits == /\ 1 <= bid.insertion_point
                               /\ bid.insertion_point <= Len(shadow[bid.robot_id]) + 1
                       upd == manager_update_timetable(manager,
                                  shadow, shadow_graph, shadow_store, send_update_to,
                                  bid.robot_id, bid.insertion_point, bid.task_id,
                                  solved /\ fits)
                       contract == TaskContract(bid.task_id, bid.robot_id, bid.round_id)
                   IN  /\ closing' = [round_id |-> res.round_id, kind |-> res.kind, bid |-> bid,
                                      relaxed |-> res.relaxed, committed |-> ~upd.raised,
                                      closed_at |-> now]
                       /\ shadow' = upd.timetables
                       /\ shadow_graph' = upd.graphs
                       /\ shadow_store' = upd.store
                       /\ send_update_to' = upd.send_update_to
                       /\ IF upd.raised
                          THEN UNCHANGED <<tasks_to_allocate, contract_net, contracts>>
                          ELSE /\ tasks_to_allocate' = tasks_to_allocate \ {bid.task_id}
                               /\ contracts' = Append(contracts, contract)
                               /\ contract_net' = contract_net \cup
                                      {[to |-> x, task_id |-> contract.task_id,
                                        robot_id |-> contract.robot_id,
                                        round_id |-> contract.round_id] :
                                          x \in RobotIds \cup {AllocateNode}}
    /\ UNCHANGED <<now, alternative_timeslots, task_status, assigned_robots,
                   announce_net, bid_net, bid_placed, timetable, dispatchable_graph, robot_store, allocations,
                   acks, processed,
                   allocate_log, bidding, stn_nodes, graph_nodes, last_call, monitor, zero_timepoint, robot_loop, execution_vars>>

\* with TimetableManager of manager.py
CloseRound == CloseRoundWith("manager.py")

\* with TimetableManager of timetable.py
CloseRoundDict == CloseRoundWith("timetable.py")

\* ------------------------------------------------------------- Dispatcher
\* the dispatcher freezes an allocated task of a shadow timetable and sends
\* it, with a dispatch-queue update, to its owning robot
Dispatch(t) ==
    /\ t \notin dispatched
    /\ task_status[t] = "ALLOCATED"
    /\ \E r \in RobotIds :
         /\ t \in SeqRange(shadow[r])
         /\ assigned_robots[t] = <<r>>
         /\ task_net' = task_net \cup
                {[to |-> r, task_id |-> t, assigned_robots |-> assigned_robots[t]]}
         /\ queue_net' = queue_net \cup
                {[to |-> r, stn |-> SubGraph(shadow[r], NTasksQueue),
                  dispatchable_graph |->
                      [shadow_graph[r] EXCEPT !.tasks = SubGraph(@, NTasksQueue)]]}
    /\ dispatched' = dispatched \cup {t}
    /\ UNCHANGED <<now, alternative_timeslots, round, tasks_to_allocate,
                   task_status, hard_constraints, assigned_robots,
                   announce_net, bid_net, contract_net, bid_placed, timetable, dispatchable_graph, robot_store,
                   shadow, shadow_graph, shadow_store, send_update_to, allocations, acks, status_net,
                   queue_update_received, recoveries, contracts, processed,
                   closing, allocate_log, bidding, stn_nodes, graph_nodes, last_call, monitor, zero_timepoint, robot_loop>>

\* the allocator's handler of a TASK-STATUS message: an UNALLOCATED task goes
\* back to the tasks to allocate and leaves the shadow timetable
TaskStatusCb ==
    \E m \in status_net :
        /\ status_net' = status_net \ {m}
        /\ IF m.status = "UNALLOCATED"
           THEN /\ tasks_to_allocate' = tasks_to_allocate \cup {m.task_id}
                /\ shadow' = [shadow EXCEPT ![m.robot_id] = RemoveTask(@, m.task_id)]
                /\ shadow_graph' = [shadow_graph EXCEPT ![m.robot_id] =
                                       RemoveFromGraph(@, m.task_id)]
                /\ shadow_store' = [shadow_store EXCEPT ![m.robot_id] =
                       Stored(RemoveTask(shadow[m.robot_id], m.task_id),
                              RemoveFromGraph(shadow_graph[m.robot_id], m.task_id))]
                /\ dispatched' = dispatched \ {m.task_id}
           ELSE UNCHANGED <<tasks_to_allocate, shadow, shadow_graph, shadow_store, dispatched>>
        /\ UNCHANGED <<now, alternative_timeslots, round, task_status,
                       hard_constraints, assigned_robots, announce_net,
                       bid_net, contract_net, bid_placed, timetable, dispatchable_graph, robot_store,
                       send_update_to, allocations, acks, task_net, queue_net,
                       queue_update_received, recoveries, contracts,
                       processed, closing, allocate_log, bidding, stn_nodes, graph_nodes, last_call, monitor, zero_timepoint, robot_loop>>

\* ------------------------------------------------------------------ Robot
\* Robot.recovery_method (configuration of the schedule monitor)
RecoveryMethod == "re-allocate"

\* merge_temporal_graph: the update's tasks, then the tasks only the robot has
MergeGraph(previous, update) ==
    update \o SelectSeq(previous, LAMBDA t : t \notin SeqRange(update))

\* Robot.task_cb
TaskCb(r) ==
    \E m \in task_net :
        /\ m.to = r
        /\ task_net' = task_net \ {m}
        /\ IF r \in SeqRange(m.assigned_robots)
           THEN task_status' = [task_status EXCEPT ![m.task_id] = "DISPATCHED"]
           ELSE UNCHANGED task_status
        /\ UNCHANGED <<now, alternative_timeslots, round, tasks_to_allocate,
                       hard_constraints, assigned_robots, announce_net,
                       bid_net, contract_net, bid_placed, timetable, dispatchable_graph, robot_store, shadow, shadow_graph, shadow_store,
                       send_update_to, allocations, acks, dispatched,
                       queue_net, status_net, queue_update_received,
                       recoveries, contracts, processed, closing, allocate_log, bidding, stn_nodes, graph_nodes, last_call, monitor, zero_timepoint, robot_loop>>

\* Robot.dispatch_queue_update_cb -> DGraphUpdate.update_timetable
DispatchQueueUpdateCb(r) ==
    \E m \in queue_net :
        /\ m.to = r
        /\ queue_net' = queue_net \ {m}
        /\ timetable' = [timetable EXCEPT ![r] =
               IF RecoveryMethod \in {"re-schedule-1", "re-schedule-2"}
               THEN m.stn ELSE MergeGraph(@, m.stn)]
        /\ dispatchable_graph' = [dispatchable_graph EXCEPT ![r] =
               IF RecoveryMethod \in {"re-schedule-1", "re-schedule-2"}
               THEN m.dispatchable_graph
               ELSE [m.dispatchable_graph EXCEPT
                        !.tasks = MergeGraph(dispatchable_graph[r].tasks, @)]]
        /\ robot_store' = [robot_store EXCEPT ![r] =
               Stored(timetable'[r], dispatchable_graph'[r])]
        /\ queue_update_received' = [queue_update_received EXCEPT ![r] = TRUE]
        /\ UNCHANGED <<now, alternative_timeslots, round, tasks_to_allocate,
                       task_status, hard_constraints, assigned_robots,
                       announce_net, bid_net, contract_net, bid_placed,
                       shadow, shadow_graph, shadow_store, send_update_to, allocations, acks, dispatched,
                       task_net, status_net, recoveries, contracts, processed,
                       closing, allocate_log, bidding, stn_nodes, graph_nodes, last_call, monitor, zero_timepoint, robot_loop>>

\* Robot.send_task_status
TaskStatusMessage(task_id, robot_id, status) ==
    [task_id |-> task_id, robot_id |-> robot_id, status |-> status]

\* Robot.re_allocate
re_allocate(r, t) ==
    /\ task_status' = [task_status EXCEPT ![t] = "UNALLOCATED"]
    /\ timetable' = [timetable EXCEPT ![r] = RemoveTask(@, t)]
    /\ dispatchable_graph' = [dispatchable_graph EXCEPT ![r] = RemoveFromGraph(@, t)]
    /\ robot_store' = [robot_store EXCEPT ![r] =
           Stored(RemoveTask(timetable[r], t), RemoveFromGraph(dispatchable_graph[r], t))]
    /\ status_net' = status_net \cup {TaskStatusMessage(t, r, "UNALLOCATED")}
    /\ recoveries' = [recoveries EXCEPT ![t] = @ + 1]

\* Robot.run -> Robot.schedule for a DISPATCHED task; consistent is the
\* outcome of ScheduleMonitor.schedule (FALSE: InconsistentSchedule)
Schedule(r, t) ==
    /\ r \in SeqRange(assigned_robots[t])
    /\ task_status[t] = "DISPATCHED"
    /\ queue_update_received[r]
    /\ \E consistent \in BOOLEAN :
         IF consistent
         THEN /\ task_status' = [task_status EXCEPT ![t] = "SCHEDULED"]
              /\ UNCHANGED <<timetable, dispatchable_graph, robot_store, status_net, recoveries>>
         ELSE /\ recoveries[t] < MaxRecoveries
              /\ re_allocate(r, t)
    /\ UNCHANGED <<now, alternative_timeslots, round, tasks_to_allocate,
                   hard_constraints, assigned_robots, announce_net, bid_net,
                   contract_net, bid_placed, shadow, shadow_graph, shadow_store, send_update_to,
                   allocations, acks, dispatched, task_net, queue_net,
                   queue_update_received, contracts, processed, closing, allocate_log, bidding, stn_nodes, graph_nodes, last_call, monitor, zero_timepoint, robot_loop>>

\* ---------------------------------------------------------- specification
\* the auction: announcement, bidding, election, contract
Next ==
    \/ Tick
    \/ Announce
    \/ \E r \in RobotIds : TaskAnnouncementCb(r)
    \/ \E r \in RobotIds : TaskAnnouncementFails(r)
    \/ BidCb
    \/ CloseRound
    \/ \E r \in RobotIds : TaskContractCb(r)
    \/ AllocateReceive

Init == \E alt \in BOOLEAN : InitWith(alt, Tasks, {NoLoop}, {NoMonitor}, {NoZtp})

Spec == Init /\ [][Next]_vars

\* the auction with the TimetableManager of timetable.py
NextDict ==
    \/ Tick
    \/ Announce
    \/ \E r \in RobotIds : TaskAnnouncementCb(r)
    \/ \E r \in RobotIds : TaskAnnouncementFails(r)
    \/ BidCb
    \/ CloseRoundDict
    \/ \E r \in RobotIds : TaskContractCb(r)
    \/ AllocateReceive

SpecDict == Init /\ [][NextDict]_vars

\* the auction together with dispatching and the robots' recovery, for a
\* batch of one task
InitExec == \E alt \in BOOLEAN : InitWith(alt, {1}, {NoLoop}, {NoMonitor}, {NoZtp})

NextExec ==
    \/ Next
    \/ \E t \in Tasks : Dispatch(t)
    \/ TaskStatusCb
    \/ \E r \in RobotIds : TaskCb(r)
    \/ \E r \in RobotIds : DispatchQueueUpdateCb(r)
    \/ \E r \in RobotIds, t \in Tasks : Schedule(r, t)

SpecExec == InitExec /\ [][NextExec]_vars

\* the Round object on its own: its caller opens and closes rounds as the
\* auctioneer does, and hands bids to Round.process_bid whatever the state of
\* the round
AnnouncedTasks ==
    Tasks \ {contracts[i].task_id :
                i \in {j \in 1..Len(contracts) : contracts[j].round_id < round.id}}

RoundBids ==
    {Bid(r, round.id, t, c, 1, <<t>>, solve(<<t>>), None) :
        r \in RobotIds, t \in AnnouncedTasks, c \in Costs}
    \cup {NoBid(r, round.id, t) : r \in RobotIds, t \in AnnouncedTasks}

ProcessBidFrom(bids) ==
    /\ round.id > 0
    /\ \E bid \in bids :
         /\ bid \notin processed
         /\ round' = process_bid(round, bid)
         /\ processed' = processed \cup {bid}
    /\ UNCHANGED <<now, alternative_timeslots, tasks_to_allocate, task_status,
                   hard_constraints, assigned_robots, announce_net, bid_net,
                   contract_net, bid_placed, timetable, dispatchable_graph, robot_store, shadow, shadow_graph, shadow_store, send_update_to,
                   allocations, acks, contracts, closing,
                   allocate_log, bidding, stn_nodes, graph_nodes, last_call, monitor, zero_timepoint, robot_loop, execution_vars>>

ProcessBid == ProcessBidFrom(RoundBids)

NextRound ==
    \/ Tick
    \/ Announce
    \/ ProcessBid
    \/ CloseRound

SpecRound == Init /\ [][NextRound]_vars

\* the auctioneer's loop runs on: the clock reaches the closure time of an
\* open round, and the loop's next iteration finds the round due
ArrivingBids ==
    {bid \in RoundBids :
        BidCost(bid) = <<None, None>> \/ BidCost(bid) = <<0, bid.task_id>>}

NextRoundRuns ==
    \/ Tick
    \/ Announce
    \/ ProcessBidFrom(ArrivingBids)
    \/ CloseRound

SpecRoundRuns ==
    Init /\ [][NextRoundRuns]_vars /\ WF_vars(Tick) /\ WF_vars(CloseRound)

\* bids placed for the round before that are delivered only now
StaleBids ==
    {Bid(r, round.id - 1, t, <<0, 0>>, 1, <<t>>, solve(<<t>>), None) :
        r \in IF round.id > 1 THEN RobotIds ELSE {}, t \in AnnouncedTasks}

\* Round.process_bid called with whatever bid arrives
NextStale ==
    \/ Tick
    \/ Announce
    \/ ProcessBidFrom(ArrivingBids \cup StaleBids)
    \/ CloseRound

SpecStale == Init /\ [][NextStale]_vars

\* ------------------------------------------------- the Bidder object alone
\* the callbacks of Bidder, called with the announcements and the contracts
\* an auctioneer can send: an announcement of tasks that are not allocated,
\* a contract for a bid some robot has placed
Announcements(r) ==
    {[to |-> r, round_id |-> id, tasks |-> ts,
      soft |-> {t \in ts : ~hard_constraints[t]}] :
        id \in 1..MaxRounds,
        ts \in (SUBSET {t \in Tasks : task_status[t] = "UNALLOCATED"}) \ {{}}}

\* Bidder.get_previous_position: the robot's node on the planner's map for
\* insertion point 1, a default node when the store has no record of the
\* robot, the delivery location of the previous task otherwise.  Without a
\* planner, get_node is looked up on None
get_previous_position(insertion_point, planner, robot_known) ==
    IF insertion_point # 1 THEN "delivery_location"
    ELSE IF ~robot_known THEN "AMK_D_L-1_C39"
    ELSE IF planner THEN "node" ELSE "AttributeError"

\* Bidder.compute_travel_time, mean and variance in tenths: the planner's
\* estimate, or mean=1, variance=0.1 without a planner
compute_travel_time(planner) ==
    IF planner THEN [mean |-> 20, variance |-> 5] ELSE [mean |-> 10, variance |-> 1]

\* the insertion points insert_task has passed when Timetable.get_task raises
\* TaskNotFound: the positions that hold a task
TriedBeforeRaise(r) == {ip \in InsertionPoints(r) : ip <= Len(timetable[r])}

\* Bidder.task_announcement_cb, its computation recorded; planners says
\* whether the bidder was built with a planner
BidderAnnouncementWith(r, planners) ==
    \E m \in Announcements(r), planner \in planners, robot_known \in BOOLEAN :
        \E outcome \in [m.tasks -> IpOutcomes(r)] :
            LET computed == compute_bids(r, m, outcome)
                out == send_bids(r, bid_placed, computed.bid, computed.no_bids)
            IN  /\ \A ip \in InsertionPoints(r) :
                      get_previous_position(ip, planner, robot_known) # "AttributeError"
                /\ bid_placed' = out.bid_placed
                /\ bid_net' = out.sent
                /\ bidding' = [robot_id |-> r, round_id |-> m.round_id,
                               tasks |-> m.tasks, tried |-> InsertionPoints(r),
                               outcome |-> outcome, sent |-> out.sent,
                               raised |-> FALSE, planner |-> planner,
                               travel_time |-> compute_travel_time(planner),
                               error |-> "none"]
                /\ fetch(r)
                /\ UNCHANGED <<now, alternative_timeslots, round,
                               tasks_to_allocate, task_status, hard_constraints,
                               assigned_robots, announce_net, contract_net,
                               robot_store, shadow, shadow_graph, shadow_store, send_update_to, allocations,
                               acks, contracts, processed, closing,
                               allocate_log, stn_nodes, graph_nodes, last_call, monitor, zero_timepoint, robot_loop, execution_vars>>

\* Bidder.task_announcement_cb left by an exception: AttributeError, raised
\* by get_previous_position at insertion point 1 before any bid is computed,
\* or TaskNotFound, raised by Timetable.get_task when insert_in probes the
\* append position
BidderAnnouncementRaisesWith(r, planners) ==
    \E m \in Announcements(r), planner \in planners, robot_known \in BOOLEAN :
        LET error == IF /\ 1 \in TriedBeforeRaise(r)
                        /\ get_previous_position(1, planner, robot_known) = "AttributeError"
                     THEN "AttributeError" ELSE "TaskNotFound"
            tried == IF error = "AttributeError" THEN {} ELSE TriedBeforeRaise(r)
        IN
        \E outcome \in [m.tasks -> [tried -> Costs \cup {NoSTPSolution}]] :
            /\ bidding' = [robot_id |-> r, round_id |-> m.round_id,
                           tasks |-> m.tasks, tried |-> tried,
                           outcome |-> outcome, sent |-> {}, raised |-> TRUE,
                           planner |-> planner,
                           travel_time |-> IF tried = {} THEN None
                                           ELSE compute_travel_time(planner),
                           error |-> error]
            /\ bid_net' = {}
            /\ fetch(r)
            /\ UNCHANGED <<now, alternative_timeslots, round, tasks_to_allocate,
                           task_status, hard_constraints, assigned_robots,
                           announce_net, contract_net, bid_placed, robot_store,
                           shadow, shadow_graph, shadow_store, send_update_to, allocations, acks, contracts,
                           processed, closing, allocate_log, stn_nodes, graph_nodes, last_call, monitor, zero_timepoint, robot_loop, execution_vars>>

\* the robot whose Bidder is driven
TheBidder == <<"robot", 1>>

\* an auctioneer publishes a contract: for the bid the robot has placed, if
\* its task is not allocated yet, or for another robot and any such task
PublishContract ==
    /\ contract_net = {}
    /\ \E x \in RobotIds, t \in Tasks, id \in 1..MaxRounds :
        /\ task_status[t] = "UNALLOCATED"
        /\ x = TheBidder =>
              /\ bid_placed[x] # Null
              /\ t = bid_placed[x].task_id
              /\ id = bid_placed[x].round_id
        /\ contract_net' = {[to |-> TheBidder, task_id |-> t, robot_id |-> x,
                             round_id |-> id]}
    /\ UNCHANGED <<now, alternative_timeslots, round, tasks_to_allocate,
                   task_status, hard_constraints, assigned_robots, announce_net,
                   bid_net, bid_placed, timetable, dispatchable_graph, robot_store, shadow, shadow_graph, shadow_store, send_update_to,
                   allocations, acks, contracts, processed, closing,
                   allocate_log, bidding, stn_nodes, graph_nodes, last_call, monitor, zero_timepoint, robot_loop, execution_vars>>

\* Robot.task_cb for a task of the robot's timetable that the dispatcher has
\* sent: the task is DISPATCHED, and frozen for the bidder
BidderTaskCb(t) ==
    /\ t \in SeqRange(timetable[TheBidder])
    /\ task_status[t] = "ALLOCATED"
    /\ assigned_robots[t] = <<TheBidder>>
    /\ task_status' = [task_status EXCEPT ![t] = "DISPATCHED"]
    /\ UNCHANGED <<now, alternative_timeslots, round, tasks_to_allocate,
                   hard_constraints, assigned_robots, announce_net, bid_net,
                   contract_net, bid_placed, timetable, dispatchable_graph,
                   robot_store, shadow, shadow_graph, shadow_store,
                   send_update_to, allocations, acks, contracts, processed,
                   closing, allocate_log, bidding, stn_nodes, graph_nodes, last_call, monitor, zero_timepoint, robot_loop,
                   execution_vars>>

BidderAnnouncement(r) == BidderAnnouncementWith(r, {TRUE})

BidderAnnouncementRaises(r) == BidderAnnouncementRaisesWith(r, {TRUE})

NextBidder ==
    \/ BidderAnnouncement(TheBidder)
    \/ BidderAnnouncementRaises(TheBidder)
    \/ PublishContract
    \/ TaskContractCb(TheBidder)
    \/ \E t \in Tasks : BidderTaskCb(t)

SpecBidder == Init /\ [][NextBidder]_vars

\* the same Bidder built without a planner
NextNoPlanner ==
    \/ BidderAnnouncementWith(TheBidder, {FALSE})
    \/ BidderAnnouncementRaisesWith(TheBidder, {FALSE})
    \/ PublishContract
    \/ TaskContractCb(TheBidder)
    \/ \E t \in Tasks : BidderTaskCb(t)

SpecNoPlanner == Init /\ [][NextNoPlanner]_vars

\* ----------------------------------------------- the Timetable object alone
\* the operations of one robot's Timetable on the timepoints of its stn,
\* called as the bidder, the executor and the dispatch-queue callback of that
\* robot call them
core_vars == <<now, alternative_timeslots, round, tasks_to_allocate,
               task_status, hard_constraints, assigned_robots, announce_net,
               bid_net, contract_net, bid_placed, shadow, shadow_graph,
               shadow_store, send_update_to, allocations, acks, contracts,
               processed, closing, allocate_log, bidding, execution_vars>>

OtherVars == <<core_vars, last_call, monitor, zero_timepoint, robot_loop>>

Position(seq, x) == CHOOSE i \in 1..Len(seq) : seq[i] = x

\* Bidder.allocate_to_robot: the stn of the placed bid, i.e. the stn with the
\* three timepoints of the task inserted
InsertTimepoints(t) ==
    /\ t \notin SeqRange(timetable[TheBidder])
    /\ \E ip \in 1..(Len(timetable[TheBidder]) + 1) :
          /\ timetable' = [timetable EXCEPT ![TheBidder] = InsertAt(@, ip, t)]
          /\ dispatchable_graph' = [dispatchable_graph EXCEPT ![TheBidder] =
                 solve(InsertAt(timetable[TheBidder], ip, t))]
          /\ robot_store' = [robot_store EXCEPT ![TheBidder] =
                 Stored(InsertAt(timetable[TheBidder], ip, t),
                        solve(InsertAt(timetable[TheBidder], ip, t)))]
    /\ stn_nodes' = [k \in NodeKeys |->
                        IF k[1] = t THEN Node(None, FALSE) ELSE stn_nodes[k]]
    /\ graph_nodes' = [k \in NodeKeys |->
                          IF k[1] = t THEN Node(None, FALSE) ELSE graph_nodes[k]]
    /\ UNCHANGED OtherVars

\* Timetable.assign_timepoint when the assignment is consistent; the code
\* forces the assignment without looking at the executed flag, the caller
\* assigns the timepoints it has not executed yet
AssignTimepoint(k) ==
    /\ stn_nodes[k] # Absent
    /\ ~stn_nodes[k].executed
    /\ \E assigned_time \in AssignedTimes :
          stn_nodes' = [stn_nodes EXCEPT ![k] = Node(assigned_time, FALSE)]
    /\ UNCHANGED <<timetable, dispatchable_graph, robot_store, graph_nodes,
                   OtherVars>>

\* Timetable.update_timetable (update_stn, update_dispatchable_graph): the
\* executor assigns the actual time of a timepoint and marks it executed in
\* both graphs; the code forces the assignment without looking at the
\* executed flag, the executor reports a timepoint once and the timepoints of
\* a task in order
UpdateTimetable(k) ==
    /\ stn_nodes[k] # Absent
    /\ ~stn_nodes[k].executed
    /\ \A j \in 1..(k[2] - 1) :
          stn_nodes[<<k[1], j>>] # Absent => stn_nodes[<<k[1], j>>].executed
    /\ \E assigned_time \in AssignedTimes :
          /\ stn_nodes' = [stn_nodes EXCEPT ![k] = Node(assigned_time, TRUE)]
          /\ graph_nodes' = [graph_nodes EXCEPT ![k] =
                                IF @ = Absent THEN Absent
                                ELSE Node(assigned_time, TRUE)]
    /\ UNCHANGED <<timetable, dispatchable_graph, robot_store, OtherVars>>

\* stn.execute_edge and stn.remove_old_timepoints: the timepoints before
\* timepoint k, the start of the executed edge, are dropped
remove_old_timepoints(tasks, nodes, k) ==
    [j \in NodeKeys |->
        IF \/ j[1] \notin SeqRange(tasks)
           \/ Position(tasks, j[1]) < Position(tasks, k[1])
           \/ (j[1] = k[1] /\ j[2] < k[2])
        THEN Absent ELSE nodes[j]]

\* dispatchable_graph.execute_edge and dispatchable_graph.remove_old_timepoints,
\* at the node indices of the edge in the stn
dispatchable_graph_execute_edge(tasks, nodes, k) ==
    remove_old_timepoints(tasks, nodes, k)

\* the tasks of a graph that have a timepoint left
WithTimepoints(tasks, nodes) ==
    SelectSeq(tasks, LAMBDA t : \E i \in 1..3 : nodes[<<t, i>>] # Absent)

\* Timetable.execute_edge for the edge from timepoint k to the next one of
\* the task
ExecuteEdge(k) ==
    /\ k[2] < 3
    /\ stn_nodes[k] # Absent /\ stn_nodes[k].executed
    /\ stn_nodes[<<k[1], k[2] + 1>>] # Absent
    /\ stn_nodes[<<k[1], k[2] + 1>>].executed
    /\ stn_nodes' = remove_old_timepoints(timetable[TheBidder], stn_nodes, k)
    /\ graph_nodes' = dispatchable_graph_execute_edge(
                          dispatchable_graph[TheBidder].tasks, graph_nodes, k)
    /\ timetable' = [timetable EXCEPT ![TheBidder] =
                        WithTimepoints(@, stn_nodes')]
    /\ dispatchable_graph' = [dispatchable_graph EXCEPT ![TheBidder].tasks =
                                 WithTimepoints(@, graph_nodes')]
    /\ UNCHANGED <<robot_store, OtherVars>>

\* Timetable.remove_task: remove_task_from_stn and
\* remove_task_from_dispatchable_graph, each followed by store(); a task
\* without timepoints in the graph is only logged
RemoveTimepoints(t) ==
    /\ timetable' = [timetable EXCEPT ![TheBidder] = RemoveTask(@, t)]
    /\ dispatchable_graph' = [dispatchable_graph EXCEPT ![TheBidder] =
                                 RemoveFromGraph(@, t)]
    /\ robot_store' = [robot_store EXCEPT ![TheBidder] =
                          Stored(timetable'[TheBidder],
                                 dispatchable_graph'[TheBidder])]
    /\ stn_nodes' = [k \in NodeKeys |->
                        IF k[1] = t THEN Absent ELSE stn_nodes[k]]
    /\ graph_nodes' = [k \in NodeKeys |->
                          IF k[1] = t THEN Absent ELSE graph_nodes[k]]
    /\ UNCHANGED OtherVars

\* Timetable.remove_node_ids: the timepoints are removed from both graphs;
\* the caller removes the first timepoints a task has left
RemoveNodeIds(task_node_ids) ==
    /\ task_node_ids # {}
    /\ \A k \in task_node_ids : stn_nodes[k] # Absent
    /\ \A k \in task_node_ids : \A i \in 1..(k[2] - 1) :
          stn_nodes[<<k[1], i>>] # Absent => <<k[1], i>> \in task_node_ids
    /\ stn_nodes' = [k \in NodeKeys |->
                        IF k \in task_node_ids THEN Absent ELSE stn_nodes[k]]
    /\ graph_nodes' = [k \in NodeKeys |->
                          IF k \in task_node_ids THEN Absent ELSE graph_nodes[k]]
    /\ timetable' = [timetable EXCEPT ![TheBidder] =
                        WithTimepoints(@, stn_nodes')]
    /\ dispatchable_graph' = [dispatchable_graph EXCEPT ![TheBidder].tasks =
                                 WithTimepoints(@, graph_nodes')]
    /\ robot_store' = [robot_store EXCEPT ![TheBidder] =
                          Stored(timetable'[TheBidder],
                                 dispatchable_graph'[TheBidder])]
    /\ UNCHANGED OtherVars

\* Robot.dispatch_queue_update_cb of a robot whose recovery method is
\* re-schedule: DGraphUpdate.update_timetable(replace=True) puts the stn of
\* the update in the place of the robot's.  The update holds the tasks of
\* the robot as the allocator has them: each timepoint as the robot has it
\* now or, the update being older, not assigned and not executed
DGraphUpdateReplace ==
    /\ timetable[TheBidder] # <<>>
    /\ \E fresh \in SUBSET {k \in NodeKeys : stn_nodes[k] # Absent} :
          /\ stn_nodes' = [k \in NodeKeys |->
                IF k[1] \notin SeqRange(timetable[TheBidder]) THEN Absent
                ELSE IF k \in fresh THEN stn_nodes[k]
                ELSE Node(None, FALSE)]
          /\ graph_nodes' = [k \in NodeKeys |->
                IF k[1] \notin SeqRange(timetable[TheBidder]) THEN Absent
                ELSE IF k \in fresh THEN graph_nodes[k]
                ELSE Node(None, FALSE)]
    /\ UNCHANGED <<timetable, dispatchable_graph, robot_store, OtherVars>>

\* ---- Timetable.assign_timepoint with its two outcomes
\* faulty variant (C31): the time is assigned to the stn itself before the
\* consistency of the minimal network is known
assign_timepoint_in_place(stn, k, assigned_time, consistent) ==
    [raised |-> ~consistent,
     stn |-> [stn EXCEPT ![k] = Node(assigned_time, FALSE)]]

\* Timetable.assign_timepoint: consistent is the outcome of
\* get_minimal_network and is_consistent on the copy with the time assigned;
\* raised stands for InconsistentAssignment
assign_timepoint(stn, k, assigned_time, consistent) ==
    IF consistent
    THEN [raised |-> FALSE,
          stn |-> [stn EXCEPT ![k] = Node(assigned_time, FALSE)]]
    ELSE [raised |-> TRUE, stn |-> stn]

\* the executor assigns a time to a timepoint it has not executed yet
AssignTimepointCall(k) ==
    /\ stn_nodes[k] # Absent
    /\ ~stn_nodes[k].executed
    /\ \E assigned_time \in AssignedTimes, consistent \in BOOLEAN :
          LET res == assign_timepoint(stn_nodes, k, assigned_time, consistent)
          IN  /\ stn_nodes' = res.stn
              /\ last_call' = [op |-> "assign_timepoint",
                               args |-> <<assigned_time, k[1], NodeTypes[k[2]]>>,
                               raised |-> res.raised]
    /\ UNCHANGED <<timetable, dispatchable_graph, robot_store, graph_nodes,
                   core_vars, monitor, zero_timepoint, robot_loop>>

NextAssign ==
    \/ \E t \in Tasks : InsertTimepoints(t)
    \/ \E k \in NodeKeys : AssignTimepointCall(k)
    \/ \E k \in NodeKeys : UpdateTimetable(k)

SpecAssign == Init /\ [][NextAssign]_vars

\* ---- Timetable.to_dict and Timetable.from_dict
\* the zero timepoints told apart
ZtpValues == {0, 1}

\* TimeStamp.to_str and TimeStamp.from_str: the instant as a string
to_str(ztp) == <<"T", ztp>>

from_str(str) == str[2]

\* a temporal graph of the timetable: its tasks in order, whether its
\* constraints are the solved ones, and the timepoints it holds
TemporalGraph(graph, nodes) ==
    [tasks |-> graph.tasks, solved |-> graph.solved,
     nodes |-> [k \in {j \in NodeKeys : j[1] \in SeqRange(graph.tasks) /\
                                         nodes[j] # Absent} |-> nodes[k]]]

\* the Timetable object of the robot, with zero timepoint ztp
TimetableOf(r, ztp) ==
    [robot_id |-> r, ztp |-> ztp,
     stn |-> TemporalGraph(Graph(timetable[r], FALSE), stn_nodes),
     dispatchable_graph |-> TemporalGraph(dispatchable_graph[r], graph_nodes)]

RECURSIVE NodeList(_, _, _)
\* the nodes of a graph as the list of {id, data} of its serialized form,
\* from the timepoint at position i of the triple of task j on
NodeList(graph, j, i) ==
    IF j > Len(graph.tasks) THEN <<>>
    ELSE IF i > 3 THEN NodeList(graph, j + 1, 1)
    ELSE IF <<graph.tasks[j], i>> \notin DOMAIN graph.nodes
    THEN NodeList(graph, j, i + 1)
    ELSE <<[id |-> 3 * (j - 1) + i,
            data |-> [task_id |-> graph.tasks[j], node_type |-> NodeTypes[i],
                      r_time |-> graph.nodes[<<graph.tasks[j], i>>].time,
                      is_executed |-> graph.nodes[<<graph.tasks[j], i>>].executed]]>>
         \o NodeList(graph, j, i + 1)

\* STN.to_dict: nodes and edges
graph_to_dict(graph) ==
    [nodes |-> NodeList(graph, 1, 1),
     edges |-> IF graph.solved THEN "minimal" ELSE "constraints"]

RECURSIVE TaskOrder(_, _)
\* the tasks of a list of nodes in the order of their first node
TaskOrder(nodes, i) ==
    IF i > Len(nodes) THEN <<>>
    ELSE IF \E j \in 1..(i - 1) : nodes[j].data.task_id = nodes[i].data.task_id
    THEN TaskOrder(nodes, i + 1)
    ELSE <<nodes[i].data.task_id>> \o TaskOrder(nodes, i + 1)

\* STN.from_dict
graph_from_dict(graph_dict) ==
    LET nodes == graph_dict.nodes
        KeyOf(n) == <<n.data.task_id, Position(NodeTypes, n.data.node_type)>>
    IN  [tasks |-> TaskOrder(nodes, 1),
         solved |-> graph_dict.edges = "minimal",
         nodes |-> [k \in {KeyOf(nodes[i]) : i \in 1..Len(nodes)} |->
                       LET n == nodes[CHOOSE i \in 1..Len(nodes) : KeyOf(nodes[i]) = k]
                       IN  Node(n.data.r_time, n.data.is_executed)]]

\* Timetable.to_dict
to_dict(tt) ==
    [robot_id |-> tt.robot_id, ztp |-> to_str(tt.ztp),
     stn |-> graph_to_dict(tt.stn),
     dispatchable_graph |-> graph_to_dict(tt.dispatchable_graph)]

from_dict_stn_twice(timetable_dict) ==
    [robot_id |-> timetable_dict.robot_id,
     ztp |-> from_str(timetable_dict.ztp),
     stn |-> graph_from_dict(timetable_dict.stn),
     dispatchable_graph |-> graph_from_dict(timetable_dict.stn)]

\* Timetable.from_dict
from_dict(timetable_dict) ==
    [robot_id |-> timetable_dict.robot_id,
     ztp |-> from_str(timetable_dict.ztp),
     stn |-> graph_from_dict(timetable_dict.stn),
     dispatchable_graph |-> graph_from_dict(timetable_dict.dispatchable_graph)]

NextTimetable ==
    \/ \E t \in Tasks : InsertTimepoints(t)
    \/ \E k \in NodeKeys : AssignTimepoint(k)
    \/ \E k \in NodeKeys : UpdateTimetable(k)
    \/ \E k \in NodeKeys : ExecuteEdge(k)
    \/ \E t \in Tasks : RemoveTimepoints(t)
    \/ \E t \in Tasks, ids \in SUBSET {1, 2, 3} : RemoveNodeIds({t} \X ids)
    \/ DGraphUpdateReplace

SpecTimetable == Init /\ [][NextTimetable]_vars

\* ------------------------------------------------------- the Robot's loop
\* Robot.run of one robot on the tasks of its timetable; the executor and
\* the schedule monitor answer through the action's choices
Orderings(S) ==
    {q \in UNION {[1..n -> S] : n \in 0..Cardinality(S)} :
        \A i, j \in DOMAIN q : i # j => q[i] # q[j]}

\* Robot.__init__ with a recovery method and the timetable it fetches: the
\* tasks of the timetable are scheduled, the first one may be in execution,
\* and the delay of the task in execution makes some later tasks late
LoopInits ==
    {[recovery_method |-> method, stn |-> stn,
      status |-> [t \in LoopTasks |->
                     IF t \notin SeqRange(stn) THEN "UNALLOCATED"
                     ELSE IF t = stn[1] /\ ongoing THEN "ONGOING"
                     ELSE "SCHEDULED"],
      late |-> late, delayed |-> {}, sent |-> {}, updates |-> 0,
      queue_update_received |-> FALSE, fired |-> {}, terminated |-> FALSE,
      task_net |-> {}] :
        method \in RecoveryMethods, stn \in Orderings(LoopTasks) \ {<<>>},
        ongoing \in BOOLEAN, late \in SUBSET LoopTasks}

\* Timetable.get_next_task
get_next_task(stn, t) ==
    IF Position(stn, t) < Len(stn) THEN stn[Position(stn, t) + 1] ELSE None

\* Robot.re_allocate and Robot.abort: the status, remove_task, send_task_status
RemoveWithStatus(loop, t, status) ==
    [loop EXCEPT !.status[t] = status,
                 !.stn = RemoveTask(@, t),
                 !.sent = @ \cup {[task_id |-> t, status |-> status]}]

\* faulty variant (C22): the task in execution is not marked delayed and its
\* status is not sent
recover_not_delayed(loop, t) ==
    LET next_task == get_next_task(loop.stn, t)
        fired == [loop EXCEPT !.fired = @ \cup {<<t, next_task>>}]
    IN  IF loop.recovery_method = "re-allocate"
        THEN RemoveWithStatus(fired, next_task, "UNALLOCATED")
        ELSE IF loop.recovery_method = "abort"
        THEN RemoveWithStatus(fired, next_task, "ABORTED")
        ELSE [fired EXCEPT !.updates = @ + 1]

\* faulty variant (C23): the abort method marks the task in execution
\* delayed, as the re-allocate method does
recover_abort_delays(loop, t) ==
    LET next_task == get_next_task(loop.stn, t)
        fired == [loop EXCEPT !.fired = @ \cup {<<t, next_task>>}]
        delayed == [fired EXCEPT !.delayed = @ \cup {t},
                                 !.sent = @ \cup {[task_id |-> t,
                                                   status |-> loop.status[t]]}]
    IN  IF loop.recovery_method = "re-allocate"
        THEN RemoveWithStatus(delayed, next_task, "UNALLOCATED")
        ELSE IF loop.recovery_method = "abort"
        THEN RemoveWithStatus(delayed, next_task, "ABORTED")
        ELSE [fired EXCEPT !.updates = @ + 1]

\* Robot.recover
recover(loop, t) ==
    LET next_task == get_next_task(loop.stn, t)
        fired == [loop EXCEPT !.fired = @ \cup {<<t, next_task>>}]
    IN  IF loop.recovery_method = "re-allocate"
        THEN RemoveWithStatus(
                 [fired EXCEPT !.delayed = @ \cup {t},
                               !.sent = @ \cup {[task_id |-> t,
                                                 status |-> loop.status[t]]}],
                 next_task, "UNALLOCATED")
        ELSE IF loop.recovery_method = "abort"
        THEN RemoveWithStatus(fired, next_task, "ABORTED")
        ELSE [fired EXCEPT !.updates = @ + 1]

\* ScheduleMonitor.recover: the next task of the task in execution is late
IsNextTaskLate(loop, t) == get_next_task(loop.stn, t) \in loop.late

\* Robot.run -> Robot.start_execution for a SCHEDULED task that is executable
StartExecution(t) ==
    /\ robot_loop.stn # <<>>
    /\ t = robot_loop.stn[1]
    /\ robot_loop.status[t] = "SCHEDULED"
    /\ robot_loop' = [robot_loop EXCEPT !.status[t] = "ONGOING"]
    /\ UNCHANGED <<timetable, dispatchable_graph, robot_store, stn_nodes, graph_nodes, last_call, monitor, zero_timepoint, core_vars>>

\* Robot.dispatch_queue_update_cb: queue_update_received
LoopQueueUpdate ==
    /\ ~robot_loop.queue_update_received
    /\ robot_loop' = [robot_loop EXCEPT !.queue_update_received = TRUE]
    /\ UNCHANGED <<timetable, dispatchable_graph, robot_store, stn_nodes, graph_nodes, last_call, monitor, zero_timepoint, core_vars>>

\* faulty variant (C38): a PLANNED action is executed whether a dispatch-queue
\* update has been received or not
executes_action_without_update(loop, action_status) ==
    action_status = "ONGOING" \/ action_status = "PLANNED"

\* the condition of Robot.continue_execution under which the current action
\* is executed
executes_action(loop, action_status) ==
    \/ action_status = "ONGOING"
    \/ action_status = "PLANNED" /\ loop.recovery_method # "re-schedule-1"
    \/ /\ action_status = "PLANNED"
       /\ loop.recovery_method = "re-schedule-1"
       /\ loop.queue_update_received

\* Robot.run -> Robot.continue_execution for an ONGOING task; action_status
\* is the status of the task's current action
ContinueExecution(t) ==
    /\ robot_loop.status[t] = "ONGOING"
    /\ \E action_status \in {"ONGOING", "PLANNED", "COMPLETED"} :
          IF executes_action(robot_loop, action_status)
          THEN LET executing == [robot_loop EXCEPT !.queue_update_received = FALSE]
               IN  /\ IsNextTaskLate(executing, t) => robot_loop.updates < MaxUpdates
                   /\ robot_loop' = IF IsNextTaskLate(executing, t)
                                    THEN recover(executing, t) ELSE executing
          ELSE IF action_status = "COMPLETED"
          THEN robot_loop' = RemoveWithStatus(robot_loop, t, "COMPLETED")
          ELSE UNCHANGED robot_loop
    /\ UNCHANGED <<timetable, dispatchable_graph, robot_store, stn_nodes, graph_nodes, last_call, monitor, zero_timepoint, core_vars>>

InitRobot == InitWith(FALSE, Tasks, LoopInits, {NoMonitor}, {NoZtp})

NextRobot ==
    \/ \E t \in LoopTasks : StartExecution(t)
    \/ \E t \in LoopTasks : ContinueExecution(t)
    \/ LoopQueueUpdate

SpecRobot == InitRobot /\ [][NextRobot]_vars

\* ---- Timetable.remove_task on a timetable of up to three tasks
RemoveKeys == LoopTasks \X {1, 2, 3}

\* the timepoints of a task that a graph holds
get_task_node_ids(nodes, task_id) ==
    {k \in DOMAIN nodes : k[1] = task_id /\ nodes[k] # Absent}

\* faulty variant (C32): a task that has lost a timepoint is taken for a task
\* that is not in the timetable
remove_from_graph_whole_tasks_only(tasks, nodes, task_id) ==
    LET task_node_ids == get_task_node_ids(nodes, task_id)
    IN  IF Cardinality(task_node_ids) = 3
        THEN [tasks |-> SubSeq(tasks, 1, Position(tasks, task_id) - 1)
                        \o SubSeq(tasks, Position(tasks, task_id) + 1, Len(tasks)),
              nodes |-> [k \in DOMAIN nodes |->
                            IF k[1] = task_id THEN Absent ELSE nodes[k]]]
        ELSE [tasks |-> tasks, nodes |-> nodes]

\* Timetable.remove_task_from_stn and remove_task_from_dispatchable_graph on
\* one graph: remove_node_ids for a task with one or two timepoints left,
\* remove_task at the task's position for a task with three, a warning
\* otherwise
remove_from_graph(tasks, nodes, task_id) ==
    LET task_node_ids == get_task_node_ids(nodes, task_id)
    IN  IF 0 < Cardinality(task_node_ids) /\ Cardinality(task_node_ids) < 3
        THEN [tasks |-> SelectSeq(tasks, LAMBDA x : x # task_id),
              nodes |-> [k \in DOMAIN nodes |->
                            IF k \in task_node_ids THEN Absent ELSE nodes[k]]]
        ELSE IF Cardinality(task_node_ids) = 3
        THEN [tasks |-> SubSeq(tasks, 1, Position(tasks, task_id) - 1)
                        \o SubSeq(tasks, Position(tasks, task_id) + 1, Len(tasks)),
              nodes |-> [k \in DOMAIN nodes |->
                            IF k[1] = task_id THEN Absent ELSE nodes[k]]]
        ELSE [tasks |-> tasks, nodes |-> nodes]

\* Timetable.fetch of a stored timetable: up to three tasks in some order,
\* the first of them with the timepoints that execute_edge has left it
LoadTimetable ==
    /\ last_call = NoCall
    /\ timetable[TheBidder] = <<>>
    /\ \E stn \in Orderings(LoopTasks) \ {<<>>}, first \in 1..3 :
          LET nodes == [k \in RemoveKeys |->
                           IF k[1] \notin SeqRange(stn) THEN Absent
                           ELSE IF k[1] = stn[1] /\ k[2] < first THEN Absent
                           ELSE Node(None, FALSE)]
          IN  /\ timetable' = [timetable EXCEPT ![TheBidder] = stn]
              /\ dispatchable_graph' = [dispatchable_graph EXCEPT
                                           ![TheBidder] = solve(stn)]
              /\ robot_store' = [robot_store EXCEPT ![TheBidder] =
                                    Stored(stn, solve(stn))]
              /\ stn_nodes' = nodes
              /\ graph_nodes' = nodes
              /\ last_call' = [op |-> "fetch", args |-> <<>>, raised |-> FALSE]
    /\ UNCHANGED <<core_vars, monitor, zero_timepoint, robot_loop>>

\* Timetable.remove_task of a task of the robot, in the timetable or not
RemoveTaskCall(task_id) ==
    /\ last_call # NoCall
    /\ LET stn == remove_from_graph(timetable[TheBidder], stn_nodes, task_id)
           graph == remove_from_graph(dispatchable_graph[TheBidder].tasks,
                                      graph_nodes, task_id)
       IN  /\ timetable' = [timetable EXCEPT ![TheBidder] = stn.tasks]
           /\ dispatchable_graph' = [dispatchable_graph EXCEPT
                                        ![TheBidder].tasks = graph.tasks]
           /\ stn_nodes' = stn.nodes
           /\ graph_nodes' = graph.nodes
           /\ robot_store' = [robot_store EXCEPT ![TheBidder] =
                                 Stored(stn.tasks,
                                        [dispatchable_graph[TheBidder] EXCEPT
                                            !.tasks = graph.tasks])]
           /\ last_call' = [op |-> "remove_task", args |-> <<task_id>>,
                            raised |-> FALSE]
    /\ UNCHANGED <<core_vars, monitor, zero_timepoint, robot_loop>>

NextRemove ==
    \/ LoadTimetable
    \/ \E t \in LoopTasks : RemoveTaskCall(t)

SpecRemove == Init /\ [][NextRemove]_vars

\* ---- the zero timepoints of the timetables
ZtpInits == {[NoZtp EXCEPT !.alias = alias] : alias \in BOOLEAN}

TimetableVars == <<timetable, dispatchable_graph, robot_store, stn_nodes, graph_nodes>>

\* Timetable.fetch: the ztp of the stored timetable, when there is one
fetch_ztp(tt, stored) == IF stored = None THEN tt ELSE [tt EXCEPT !.ztp = stored]

\* `timetable.zero_timepoint = time_`: an assignment to ztp when the base
\* class makes the two one, an attribute of its own on the object otherwise
set_zero_timepoint(alias, tt, time_) ==
    IF alias THEN [tt EXCEPT !.ztp = time_] ELSE [tt EXCEPT !.zero_timepoint = time_]

\* `timetable.zero_timepoint` read: None stands for AttributeError
get_zero_timepoint(alias, tt) == IF alias THEN tt.ztp ELSE tt.zero_timepoint

\* Bidder.task_announcement_cb on the timetable's zero timepoint: fetch, then
\* set zero_timepoint from the announcement
task_announcement_ztp(alias, tt, stored, time_) ==
    set_zero_timepoint(alias, fetch_ztp(tt, stored), time_)

\* TimetableManager.register_robot: a new Timetable, fetched and entered in
\* the manager, then the manager's zero_timepoint is read for a print
RegisterRobot(r) ==
    /\ r \notin DOMAIN zero_timepoint.manager
    /\ LET tt == fetch_ztp(NewTimetableZtp, zero_timepoint.manager_store[r])
           manager == [x \in DOMAIN zero_timepoint.manager \cup {r} |->
                          IF x = r THEN tt ELSE zero_timepoint.manager[x]]
           any_timetable == CHOOSE x \in DOMAIN manager : TRUE
       IN  zero_timepoint' = [zero_timepoint EXCEPT
               !.manager = manager,
               !.op = "register_robot", !.robot_id = r, !.time = None,
               !.raised = get_zero_timepoint(zero_timepoint.alias,
                                             manager[any_timetable]) = None]
    /\ UNCHANGED <<TimetableVars, core_vars, last_call, monitor, robot_loop>>

\* the setter of TimetableManager.zero_timepoint: update_zero_timepoint on
\* every registered timetable; AttributeError at the first one when the base
\* class has no such method
SetManagerZtp(time_) ==
    /\ zero_timepoint' = [zero_timepoint EXCEPT
           !.manager = IF zero_timepoint.alias
                       THEN [r \in DOMAIN @ |-> [@[r] EXCEPT !.ztp = time_]]
                       ELSE @,
           !.op = "zero_timepoint", !.robot_id = NoRobot, !.time = time_,
           !.raised = ~zero_timepoint.alias /\ DOMAIN zero_timepoint.manager # {}]
    /\ UNCHANGED <<TimetableVars, core_vars, last_call, monitor, robot_loop>>

\* Bidder.task_announcement_cb of robot r for an announcement that carries
\* zero_timepoint time_
AnnouncementZtp(r, time_) ==
    /\ zero_timepoint' = [zero_timepoint EXCEPT
           !.robots[r] = task_announcement_ztp(zero_timepoint.alias, @,
                                               zero_timepoint.robot_store[r], time_),
           !.op = "task_announcement_cb", !.robot_id = r, !.time = time_,
           !.raised = FALSE]
    /\ UNCHANGED <<TimetableVars, core_vars, last_call, monitor, robot_loop>>

\* Timetable.store of a robot's timetable (allocate_to_robot) and of a
\* timetable of the manager (update_timetable)
StoreZtp(r) ==
    /\ zero_timepoint' = [zero_timepoint EXCEPT
           !.robot_store[r] = zero_timepoint.robots[r].ztp,
           !.op = "store", !.robot_id = r, !.time = None, !.raised = FALSE]
    /\ UNCHANGED <<TimetableVars, core_vars, last_call, monitor, robot_loop>>

ManagerStoreZtp(r) ==
    /\ r \in DOMAIN zero_timepoint.manager
    /\ zero_timepoint' = [zero_timepoint EXCEPT
           !.manager_store[r] = zero_timepoint.manager[r].ztp,
           !.op = "manager_store", !.robot_id = r, !.time = None, !.raised = FALSE]
    /\ UNCHANGED <<TimetableVars, core_vars, last_call, monitor, robot_loop>>

InitZeroTimepoints == InitWith(FALSE, Tasks, {NoLoop}, {NoMonitor}, ZtpInits)

NextZtp ==
    \/ \E r \in RobotIds : RegisterRobot(r)
    \/ \E time_ \in ZtpValues : SetManagerZtp(time_)
    \/ \E r \in RobotIds, time_ \in ZtpValues : AnnouncementZtp(r, time_)
    \/ \E r \in RobotIds : StoreZtp(r)
    \/ \E r \in RobotIds : ManagerStoreZtp(r)

SpecZtp == InitZeroTimepoints /\ [][NextZtp]_vars

\* ---- Robot.dispatch_queue_update_cb with the recovery method of the robot
\* the updates a dispatcher can send: a zero timepoint, an stn and its
\* dispatchable graph
QueueUpdates ==
    {[ztp |-> time_, stn |-> stn, dispatchable_graph |-> solve(stn)] :
        time_ \in ZtpValues, stn \in Orderings(Tasks)}

\* recovery_method.startswith("re-schedule")
is_re_schedule(method) == method \in {"re-schedule-1", "re-schedule-2"}

\* faulty variant (C39): the received graphs are merged whatever replace says
d_graph_update_timetable_always_merges(tt, update, replace) ==
    [ztp |-> update.ztp,
     stn |-> MergeGraph(tt.stn, update.stn),
     dispatchable_graph |->
         [update.dispatchable_graph EXCEPT
             !.tasks = MergeGraph(tt.dispatchable_graph.tasks, @)]]

\* DGraphUpdate.update_timetable: the ztp, the stn and the dispatchable graph
\* of the timetable afterwards
d_graph_update_timetable(tt, update, replace) ==
    [ztp |-> update.ztp,
     stn |-> IF replace THEN update.stn ELSE MergeGraph(tt.stn, update.stn),
     dispatchable_graph |->
         IF replace THEN update.dispatchable_graph
         ELSE [update.dispatchable_graph EXCEPT
                  !.tasks = MergeGraph(tt.dispatchable_graph.tasks, @)]]

\* Robot.dispatch_queue_update_cb of a robot built with recovery method
\* method, for the update it receives
QueueUpdateCall(r, method, update) ==
    LET tt == [ztp |-> zero_timepoint.robots[r].ztp, stn |-> timetable[r],
               dispatchable_graph |-> dispatchable_graph[r]]
        res == d_graph_update_timetable(tt, update, is_re_schedule(method))
    IN  /\ timetable' = [timetable EXCEPT ![r] = res.stn]
        /\ dispatchable_graph' = [dispatchable_graph EXCEPT ![r] = res.dispatchable_graph]
        /\ robot_store' = [robot_store EXCEPT ![r] =
                              Stored(res.stn, res.dispatchable_graph)]
        /\ zero_timepoint' = [zero_timepoint EXCEPT
               !.robots[r].ztp = res.ztp, !.robot_store[r] = res.ztp,
               !.op = "dispatch_queue_update_cb", !.robot_id = r,
               !.time = update.ztp, !.raised = FALSE]
        /\ queue_update_received' = [queue_update_received EXCEPT ![r] = TRUE]
        /\ last_call' = [op |-> "dispatch_queue_update_cb",
                         args |-> <<method, update, r>>, raised |-> FALSE]
        /\ UNCHANGED <<now, alternative_timeslots, round, tasks_to_allocate,
                       task_status, hard_constraints, assigned_robots,
                       announce_net, bid_net, contract_net, bid_placed,
                       shadow, shadow_graph, shadow_store, send_update_to,
                       allocations, acks, dispatched, task_net, queue_net,
                       status_net, recoveries, contracts, processed, closing,
                       allocate_log, bidding, stn_nodes, graph_nodes, monitor,
                       robot_loop>>

NextQueueUpdate ==
    \E r \in RobotIds, method \in RecoveryMethods, update \in QueueUpdates :
        QueueUpdateCall(r, method, update)

SpecQueueUpdate == Init /\ [][NextQueueUpdate]_vars

\* ------------------------------------------------- the tasks' lifecycle
\* the robot's loop together with the dispatch of the tasks of its timetable
\* that are allocated and not dispatched yet
NotDispatched(loop) ==
    [loop EXCEPT !.status = [t \in LoopTasks |->
        IF loop.status[t] = "SCHEDULED" THEN "ALLOCATED" ELSE loop.status[t]]]

LifecycleInits == LoopInits \cup {NotDispatched(loop) : loop \in LoopInits}

\* the dispatcher sends an allocated task of the timetable to the robot
LoopDispatch(t) ==
    /\ t \in SeqRange(robot_loop.stn)
    /\ robot_loop.status[t] = "ALLOCATED"
    /\ t \notin robot_loop.task_net
    /\ robot_loop' = [robot_loop EXCEPT !.task_net = @ \cup {t}]
    /\ UNCHANGED <<timetable, dispatchable_graph, robot_store, stn_nodes, graph_nodes, last_call, monitor, zero_timepoint, core_vars>>

\* Robot.task_cb for a task assigned to the robot
LoopTaskCb(t) ==
    /\ t \in robot_loop.task_net
    /\ robot_loop' = [robot_loop EXCEPT !.task_net = @ \ {t},
                                         !.status[t] = "DISPATCHED"]
    /\ UNCHANGED <<timetable, dispatchable_graph, robot_store, stn_nodes, graph_nodes, last_call, monitor, zero_timepoint, core_vars>>

\* Robot.run -> Robot.schedule for a DISPATCHED task
LoopSchedule(t) ==
    /\ robot_loop.status[t] = "DISPATCHED"
    /\ robot_loop.queue_update_received
    /\ \E consistent \in BOOLEAN :
          robot_loop' = IF consistent
                        THEN [robot_loop EXCEPT !.status[t] = "SCHEDULED"]
                        ELSE RemoveWithStatus(robot_loop, t, "UNALLOCATED")
    /\ UNCHANGED <<timetable, dispatchable_graph, robot_store, stn_nodes, graph_nodes, last_call, monitor, zero_timepoint, core_vars>>

InitLifecycle == InitWith(FALSE, Tasks, LifecycleInits, {NoMonitor}, {NoZtp})

NextLifecycle ==
    \/ NextRobot
    \/ \E t \in LoopTasks : LoopDispatch(t)
    \/ \E t \in LoopTasks : LoopTaskCb(t)
    \/ \E t \in LoopTasks : LoopSchedule(t)

SpecLifecycle == InitLifecycle /\ [][NextLifecycle]_vars

\* ---- the robot loop with the actions it executes recorded
\* Robot.run -> Robot.continue_execution for an ONGOING task, the call of
\* executor.execute_action recorded with the status the action had; the last
\* argument tells a call from the one before
ContinueExecutionCall(t) ==
    /\ robot_loop.status[t] = "ONGOING"
    /\ \E action_status \in {"ONGOING", "PLANNED", "COMPLETED"} :
          IF executes_action(robot_loop, action_status)
          THEN LET executing == [robot_loop EXCEPT !.queue_update_received = FALSE]
               IN  /\ IsNextTaskLate(executing, t) => robot_loop.updates < MaxUpdates
                   /\ robot_loop' = IF IsNextTaskLate(executing, t)
                                    THEN recover(executing, t) ELSE executing
                   /\ last_call' =
                          [op |-> "execute_action",
                           args |-> <<t, action_status,
                                      IF last_call.op = "execute_action"
                                      THEN 1 - last_call.args[3] ELSE 0>>,
                           raised |-> FALSE]
          ELSE IF action_status = "COMPLETED"
          THEN /\ robot_loop' = RemoveWithStatus(robot_loop, t, "COMPLETED")
               /\ UNCHANGED last_call
          ELSE UNCHANGED <<robot_loop, last_call>>
    /\ UNCHANGED <<TimetableVars, monitor, zero_timepoint, core_vars>>

NextLoopCalls ==
    \/ \E t \in LoopTasks : StartExecution(t)
    \/ \E t \in LoopTasks : ContinueExecutionCall(t)
    \/ LoopQueueUpdate
    \/ \E t \in LoopTasks : LoopDispatch(t)
    \/ \E t \in LoopTasks : LoopTaskCb(t)
    \/ \E t \in LoopTasks : LoopSchedule(t)

SpecLoopCalls == InitLifecycle /\ [][NextLoopCalls]_vars

\* ------------------------------------------ the controller's termination
\* the completing branch of Robot.continue_execution
CompleteExecution(t) ==
    /\ robot_loop.status[t] = "ONGOING"
    /\ robot_loop' = RemoveWithStatus(robot_loop, t, "COMPLETED")
    /\ UNCHANGED <<timetable, dispatchable_graph, robot_store, stn_nodes, graph_nodes, last_call, monitor, zero_timepoint, core_vars>>

\* the allocation policy: an UNALLOCATED task is auctioned, awarded to the
\* robot, dispatched and scheduled after the tasks the robot has; with its
\* new schedule it is not late
Award(t) ==
    /\ robot_loop.status[t] = "UNALLOCATED"
    /\ robot_loop' = [robot_loop EXCEPT !.status[t] = "SCHEDULED",
                                         !.stn = Append(@, t),
                                         !.late = @ \ {t}]
    /\ UNCHANGED <<timetable, dispatchable_graph, robot_store, stn_nodes, graph_nodes, last_call, monitor, zero_timepoint, core_vars>>

\* Allocate.check_termination_test, one pass of the polling loop of
\* Allocate.run over the tasks of the dataset
check_termination_test ==
    /\ ~robot_loop.terminated
    /\ LET tasks == {t \in LoopTasks :
                        robot_loop.status[t] \in {"COMPLETED", "PREEMPTED"}}
       IN  robot_loop' = [robot_loop EXCEPT !.terminated =
                             Cardinality(tasks) = Cardinality(LoopTasks)]
    /\ UNCHANGED <<timetable, dispatchable_graph, robot_store, stn_nodes, graph_nodes, last_call, monitor, zero_timepoint, core_vars>>

NextTermination ==
    \/ NextRobot
    \/ \E t \in LoopTasks : Award(t)
    \/ check_termination_test

\* Robot.run and Allocate.run are loops that never block: a task that can be
\* started is started, an action in execution completes, a task to allocate
\* is awarded, and the controller keeps polling
Fairness ==
    /\ \A t \in LoopTasks : WF_vars(StartExecution(t))
    /\ \A t \in LoopTasks : WF_vars(CompleteExecution(t))
    /\ \A t \in LoopTasks : WF_vars(Award(t))
    /\ WF_vars(check_termination_test)

SpecTermination == InitRobot /\ [][NextTermination]_vars /\ Fairness

\* ------------------------------- the Timetable's checks of the next task
\* times are in thousandths of a second
\* ActionStatus of an action of the task in execution
ActionStatuses == {"PLANNED", "ONGOING", "COMPLETED", "FAILED"}

\* action.estimated_duration: mean and variance
MeanValues == {1000}

VarianceValues == {0, 1, 2}

\* the times of the timepoints of the task in execution in the stn, by the
\* finish node of the task's actions: to pickup, to delivery
StnTimes == [start |-> 0, pickup |-> 1000, delivery |-> 2000]

FinishNode == <<"pickup", "delivery">>

\* the latest delivery time of the task in execution and the earliest and
\* latest start time of the next task in the dispatchable graph
FinishTimes == {2000, 3000, 4000}

EarliestStarts == {2000, 3000}

LatestStarts == {2000, 4000, 4828, 4829, 5000}

\* a task in execution, the next task and the timetable that holds them
MonitorInits ==
    {[actions |-> actions, stn_time |-> StnTimes, finish_current |-> finish,
      earliest_start_next |-> earliest, latest_start_next |-> latest,
      call |-> "none", ret |-> FALSE] :
        actions \in [1..2 -> [status : ActionStatuses, mean : MeanValues,
                              variance : VarianceValues]],
        finish \in FinishTimes,
        earliest \in EarliestStarts,
        latest \in {l \in LatestStarts : l >= 3000}}
    \cup
    {[actions |-> actions, stn_time |-> StnTimes, finish_current |-> finish,
      earliest_start_next |-> 2000, latest_start_next |-> 2000,
      call |-> "none", ret |-> FALSE] :
        actions \in [1..2 -> [status : ActionStatuses, mean : MeanValues,
                              variance : VarianceValues]],
        finish \in FinishTimes}

\* round(variance ** 0.5, 3): the square root to the nearest thousandth
round_sqrt(variance) ==
    CHOOSE s \in 0..(1000 * (variance + 1)) :
        /\ s = 0 \/ (2 * s - 1) * (2 * s - 1) <= 4000000 * variance
        /\ 4000000 * variance < (2 * s + 1) * (2 * s + 1)

RECURSIVE ProgressLoop(_, _, _)
\* the loop of is_next_task_late over task.status.progress.actions: the last
\* completed action (0: none), the mean and the variance summed
ProgressLoop(actions, i, acc) ==
    IF i > Len(actions) THEN acc
    ELSE IF actions[i].status = "COMPLETED"
    THEN ProgressLoop(actions, i + 1, [acc EXCEPT !.last_completed_action = i])
    ELSE IF actions[i].status = "ONGOING" \/ actions[i].status = "PLANNED"
    THEN ProgressLoop(actions, i + 1,
             [acc EXCEPT !.mean = @ + actions[i].mean,
                         !.variance = @ + actions[i].variance])
    ELSE ProgressLoop(actions, i + 1, acc)

\* faulty variant (C29): a next task that starts just in time is late
is_next_task_late_on_equality(m) ==
    LET acc == ProgressLoop(m.actions, 1,
                   [last_completed_action |-> 0, mean |-> 0, variance |-> 0])
        estimated_duration == acc.mean + 2 * round_sqrt(acc.variance)
        last_time == IF acc.last_completed_action # 0
                     THEN m.stn_time[FinishNode[acc.last_completed_action]]
                     ELSE m.stn_time["start"]
        estimated_start_time == last_time + estimated_duration
    IN  m.latest_start_next <= estimated_start_time

\* Timetable.is_next_task_late
is_next_task_late(m) ==
    LET acc == ProgressLoop(m.actions, 1,
                   [last_completed_action |-> 0, mean |-> 0, variance |-> 0])
        estimated_duration == acc.mean + 2 * round_sqrt(acc.variance)
        last_time == IF acc.last_completed_action # 0
                     THEN m.stn_time[FinishNode[acc.last_completed_action]]
                     ELSE m.stn_time["start"]
        estimated_start_time == last_time + estimated_duration
        latest_start_time == m.latest_start_next
    IN  latest_start_time < estimated_start_time

\* faulty variant (C30): the earliest start time of a valid next task is set
\* to the finish time whether it is earlier or not
is_next_task_invalid_always_assigns(m) ==
    IF m.latest_start_next < m.finish_current
    THEN [ret |-> TRUE, earliest_start_next |-> m.earliest_start_next]
    ELSE [ret |-> FALSE, earliest_start_next |-> m.finish_current]

\* Timetable.is_next_task_invalid: the returned value and the earliest start
\* time of the next task in the dispatchable graph afterwards
is_next_task_invalid(m) ==
    IF m.latest_start_next < m.finish_current
    THEN [ret |-> TRUE, earliest_start_next |-> m.earliest_start_next]
    ELSE IF m.earliest_start_next < m.finish_current
    THEN [ret |-> FALSE, earliest_start_next |-> m.finish_current]
    ELSE [ret |-> FALSE, earliest_start_next |-> m.earliest_start_next]

\* the schedule monitor asks whether the next task is late
CheckNextTaskLate ==
    /\ monitor' = [monitor EXCEPT !.call = "is_next_task_late",
                                  !.ret = is_next_task_late(monitor)]
    /\ UNCHANGED <<timetable, dispatchable_graph, robot_store, stn_nodes,
                   graph_nodes, last_call, core_vars, zero_timepoint, robot_loop>>

\* the schedule monitor asks whether the next task is invalid
CheckNextTaskInvalid ==
    /\ monitor' = [monitor EXCEPT
           !.call = "is_next_task_invalid",
           !.ret = is_next_task_invalid(monitor).ret,
           !.earliest_start_next = is_next_task_invalid(monitor).earliest_start_next]
    /\ UNCHANGED <<timetable, dispatchable_graph, robot_store, stn_nodes,
                   graph_nodes, last_call, core_vars, zero_timepoint, robot_loop>>

InitMonitor == InitWith(FALSE, Tasks, {NoLoop}, MonitorInits, {NoZtp})

NextMonitor ==
    \/ CheckNextTaskLate
    \/ CheckNextTaskInvalid

SpecMonitor == InitMonitor /\ [][NextMonitor]_vars

\* ------------------------------------------ the TimetableManager alone
\* the tasks the manager is asked to commit: enough of them for a timetable
\* to grow past the dispatch window while the other robot's holds a task
ManagerTasks == 1..(NTasksQueue + 2)

\* the auctioneer commits a bid for a task no timetable holds, at an
\* insertion point of the winner's timetable
ManagerCommit ==
    /\ \E r \in RobotIds, solved \in BOOLEAN :
       \E t \in ManagerTasks \ UNION {SeqRange(shadow_store[x].stn) : x \in RobotIds} :
       \E ip \in 1..(Len(shadow_store[r].stn) + 1) :
          LET upd == update_timetable(shadow, shadow_graph, shadow_store,
                                      send_update_to, r, ip, t, solved)
              res == solve_stp(shadow_store[r].stn, t, ip)
          IN  /\ shadow' = upd.timetables
              /\ shadow_graph' = upd.graphs
              /\ shadow_store' = upd.store
              /\ send_update_to' = upd.send_update_to
              /\ closing' = [round_id |-> 0, kind |-> "result",
                             bid |-> Bid(r, 0, t, <<0, 0>>, ip, res.stn,
                                         res.dispatchable_graph, None),
                             relaxed |-> {}, committed |-> ~upd.raised,
                             closed_at |-> now]
    /\ UNCHANGED <<now, alternative_timeslots, round, tasks_to_allocate,
                   task_status, hard_constraints, assigned_robots, announce_net,
                   bid_net, contract_net, bid_placed, timetable,
                   dispatchable_graph, robot_store, allocations, acks,
                   contracts, processed, allocate_log, bidding, stn_nodes,
                   graph_nodes, last_call, monitor, zero_timepoint, robot_loop, execution_vars>>

NextManager == ManagerCommit

SpecManager == Init /\ [][NextManager]_vars

\* ---------------------------------------------------------------- properties
\* bids with metrics, and no-bids, of a set of BID messages
RealBids(S) == {b \in S : BidCost(b) # <<None, None>>}

NoBids(S) == {b \in S : BidCost(b) = <<None, None>>}

\* the order of the election: cost, then task id, then robot suffix
BidLeq(a, b) ==
    \/ CostLT(BidCost(a), BidCost(b))
    \/ /\ BidCost(a) = BidCost(b)
       /\ \/ a.task_id < b.task_id
          \/ /\ a.task_id = b.task_id
             /\ RobotSuffix(a.robot_id) <= RobotSuffix(b.robot_id)

MinBid(S) == CHOOSE b \in S : \A c \in S : BidLeq(b, c)

\* the latest closing belongs to the current round / elected a winner
Closed == closing.round_id # 0

Elected == closing.kind \in {"result", "AlternativeTimeSlot"}

\* the tasks for which the current round received no-bids and no bid
OnlyNoBids ==
    {b.task_id : b \in NoBids(processed)} \ {b.task_id : b \in RealBids(processed)}

ContractsFor(t) == {i \in 1..Len(contracts) : contracts[i].task_id = t}

LogFor(t) == {i \in 1..Len(allocate_log) : allocate_log[i].task_id = t}

LastOf(S) == CHOOSE i \in S : \A j \in S : j <= i

\* C1 as stated: at most one TaskContract is ever emitted for a task id
C1_OneContractEver ==
    \A i, j \in 1..Len(contracts) :
        i # j => contracts[i].task_id # contracts[j].task_id

\* C1 amended: a task gets at most one TaskContract per allocation cycle, i.e.
\* at most one more than the number of times a recovery reset it to
\* UNALLOCATED, and Allocate sets allocations[task_id] once for every contract
\* it receives, to the robot of that contract
C1_OneContractPerCycle ==
    /\ \A t \in Tasks :
         /\ Cardinality(ContractsFor(t)) <= recoveries[t] + 1
         /\ Cardinality(LogFor(t)) <= Cardinality(ContractsFor(t))
         /\ t \in DOMAIN allocations <=> LogFor(t) # {}
         /\ LogFor(t) # {} =>
                allocations[t] = allocate_log[LastOf(LogFor(t))].robot_id
    /\ \A i, j \in 1..Len(allocate_log) : i # j => allocate_log[i] # allocate_log[j]
    /\ \A i \in 1..Len(allocate_log) : allocate_log[i] \in SeqRange(contracts)

C1_Witness ==
    /\ Len(contracts) = 2
    /\ contracts[1].task_id = contracts[2].task_id
    /\ contracts[1].robot_id # contracts[2].robot_id
    /\ allocate_log = contracts
    /\ allocations[contracts[2].task_id] = contracts[2].robot_id

\* C2: the bid elected at the close of a round is one of the bids the round
\* received and is lower than or equal to every bid with metrics the round
\* received, under the order cost, task id, robot suffix
C2_WinnerIsLowest ==
    Elected =>
        /\ closing.bid \in RealBids(processed)
        /\ \A b \in RealBids(processed) : BidLeq(closing.bid, b)

C2_Witness ==
    /\ closing.kind = "result"
    /\ \E b1, b2 \in RealBids(processed) :
         /\ b1.robot_id # b2.robot_id
         /\ b1.task_id # b2.task_id
         /\ BidEQ(b1, b2)
         /\ closing.bid = b1

\* C3: the round is not closed while now < closure_time, and the result of
\* the closing is the minimum of the bids processed before the round closed
\* (NoAllocation when there is none)
C3_WinnerOfBidsBeforeClose ==
    /\ (round.id > 0 /\ now < round.closure_time) => (round.opened /\ ~Closed)
    /\ Closed =>
         /\ closing.closed_at >= round.closure_time
         /\ IF RealBids(processed) = {}
            THEN closing.kind = "NoAllocation"
            ELSE Elected /\ closing.bid = MinBid(RealBids(processed))

C3_Witness ==
    /\ Elected
    /\ Cardinality(RealBids(processed)) >= 1
    /\ \E b \in RealBids(bid_net) :
         /\ b.round_id = round.id
         /\ BidLT(b, closing.bid)

\* C4: a bid or no-bid handed to a round after that round closed is dropped:
\* the round's received_bids and received_no_bids stay as they are
C4_LateBidDropped ==
    [][(Closed /\ closing.round_id = round.id /\ round'.id = round.id
          /\ processed' # processed)
       => /\ round'.received_bids = round.received_bids
          /\ round'.received_no_bids = round.received_no_bids]_vars

\* C5: received_bids, received_no_bids and the winner are functions of the
\* set of bids delivered to the round, whatever the order of delivery: per
\* task the lowest bid by cost and then by robot suffix, and the number of
\* no-bids
C5_OrderIndependent ==
    round.id > 0 =>
        /\ DOMAIN round.received_bids = {b.task_id : b \in RealBids(processed)}
        /\ \A t \in DOMAIN round.received_bids :
             round.received_bids[t] =
                 MinBid({b \in RealBids(processed) : b.task_id = t})
        /\ DOMAIN round.received_no_bids = {b.task_id : b \in NoBids(processed)}
        /\ \A t \in DOMAIN round.received_no_bids :
             round.received_no_bids[t] =
                 Cardinality({b \in NoBids(processed) : b.task_id = t})
        /\ RealBids(processed) # {} =>
             elect_winner(round) = MinBid(RealBids(processed))

C5_Witness ==
    \E b1, b2 \in RealBids(processed) :
        /\ b1.task_id = b2.task_id
        /\ BidEQ(b1, b2)
        /\ RobotSuffix(b1.robot_id) < RobotSuffix(b2.robot_id)
        /\ round.received_bids[b1.task_id] = b1

\* C6: a round emits at most one contract; the tasks that were not awarded
\* stay UNALLOCATED in the tasks to allocate and are announced again, so that
\* the tasks of a batch are allocated one per round
C6_OneAllocationPerRound ==
    /\ \A i, j \in 1..Len(contracts) :
         i # j => contracts[i].round_id # contracts[j].round_id
    /\ Len(contracts) <= round.id
    /\ tasks_to_allocate = Tasks \ {contracts[i].task_id : i \in 1..Len(contracts)}
    /\ \A t \in tasks_to_allocate : task_status[t] = "UNALLOCATED"
    /\ \A m \in announce_net :
         m.tasks = tasks_to_allocate \cup
                   {contracts[i].task_id :
                       i \in {j \in 1..Len(contracts) : contracts[j].round_id = m.round_id}}

C6_Witness ==
    /\ Len(contracts) = 2
    /\ contracts[1].round_id = 1
    /\ contracts[2].round_id = 2
    /\ tasks_to_allocate = {}
    /\ \A t \in Tasks : task_status[t] = "ALLOCATED"

\* C7: a round that received no bid with metrics closes with NoAllocation
\* carrying the round id; no contract is emitted, no timetable changes, and
\* the tasks stay UNALLOCATED in the tasks to allocate
C7_NoAllocation ==
    /\ []((Closed /\ RealBids(processed) = {}) => closing.kind = "NoAllocation")
    /\ [](closing.kind = "NoAllocation" =>
            /\ closing.round_id = round.id
            /\ \A i \in 1..Len(contracts) : contracts[i].round_id # round.id
            /\ \A m \in contract_net : m.round_id # round.id
            /\ \A t \in tasks_to_allocate : task_status[t] = "UNALLOCATED")
    /\ [][(closing.kind # "NoAllocation" /\ closing'.kind = "NoAllocation")
          => /\ shadow' = shadow
             /\ timetable' = timetable
             /\ send_update_to' = send_update_to
             /\ task_status' = task_status
             /\ tasks_to_allocate' = tasks_to_allocate
             /\ tasks_to_allocate # {}
             /\ contracts' = contracts
             /\ contract_net' = contract_net]_vars

C7_Witness ==
    /\ closing.kind = "NoAllocation"
    /\ NoBids(processed) # {}
    /\ tasks_to_allocate = Tasks

\* C8: a no-bid is never elected; handing a no-bid to the round adds exactly
\* one to received_no_bids of its task and leaves received_bids and the other
\* counters as they are
C8_NoBidNeverElected ==
    /\ [](Elected => BidCost(closing.bid) # <<None, None>>)
    /\ [](\A t \in DOMAIN round.received_bids :
            BidCost(round.received_bids[t]) # <<None, None>>)
    /\ [][\A b \in NoBids(bid_net) :
            (b \notin processed /\ processed' = processed \cup {b})
            => /\ round'.received_bids = round.received_bids
               /\ DOMAIN round'.received_no_bids =
                      DOMAIN round.received_no_bids \cup {b.task_id}
               /\ \A t \in DOMAIN round'.received_no_bids :
                    round'.received_no_bids[t] =
                        (IF t \in DOMAIN round.received_no_bids
                         THEN round.received_no_bids[t] ELSE 0)
                        + (IF t = b.task_id THEN 1 ELSE 0)]_vars

C8_Witness ==
    /\ Elected
    /\ \E t \in DOMAIN round.received_no_bids :
         /\ round.received_no_bids[t] = 2
         /\ t # closing.bid.task_id

\* C9 as stated: with alternative_timeslots on, a closing that finds a task
\* with only no-bids relaxes and elects no winner
C9_RelaxInsteadOfElect ==
    (Closed /\ alternative_timeslots /\ OnlyNoBids # {}) => ~Elected

\* C9 amended: with alternative_timeslots on, the closing sets the tasks that
\* received only no-bids to soft constraints and leaves them in the tasks to
\* allocate, and in the same closing it still elects the lowest bid whenever
\* the round received a bid with metrics
C9_RelaxAndElect ==
    /\ Closed =>
         /\ closing.relaxed = IF alternative_timeslots THEN OnlyNoBids ELSE {}
         /\ \A t \in closing.relaxed :
              ~hard_constraints[t] /\ t \in tasks_to_allocate
         /\ Elected <=> RealBids(processed) # {}
    /\ \A t \in Tasks : ~hard_constraints[t] => alternative_timeslots

C9_Witness ==
    /\ Closed
    /\ closing.relaxed # {}
    /\ closing.kind = "result"
    /\ closing.committed

\* C10: when the lowest bid of the round carries an alternative start time
\* the closing signals AlternativeTimeSlot with that bid, and the allocation
\* goes on as for any winning bid: once the bid is committed its contract is
\* emitted and its delivery to the winner makes the task ALLOCATED
C10_AlternativeTimeSlot ==
    /\ (Closed /\ RealBids(processed) # {}) =>
         LET w == MinBid(RealBids(processed))
         IN  IF Truthy(w.alternative_start_time)
             THEN closing.kind = "AlternativeTimeSlot" /\ closing.bid = w
             ELSE closing.kind = "result"
    /\ (closing.kind = "AlternativeTimeSlot" /\ closing.committed) =>
         LET bid == closing.bid
             contract == TaskContract(bid.task_id, bid.robot_id, bid.round_id)
         IN  /\ Len(contracts) > 0
             /\ contracts[Len(contracts)] = contract
             /\ \/ [to |-> bid.robot_id, task_id |-> contract.task_id,
                    robot_id |-> contract.robot_id,
                    round_id |-> contract.round_id] \in contract_net
                \/ /\ task_status[bid.task_id] = "ALLOCATED"
                   /\ assigned_robots[bid.task_id] = <<bid.robot_id>>

C10_Witness ==
    /\ closing.kind = "AlternativeTimeSlot"
    /\ closing.committed
    /\ task_status[closing.bid.task_id] = "ALLOCATED"
    /\ assigned_robots[closing.bid.task_id] = <<closing.bid.robot_id>>

\* ---- C11
\* the insertion points of the latest announcement handling that gave a bid
\* for task t, the cost of the best of them, the tasks that have one
FeasibleAt(t) ==
    {ip \in bidding.tried : bidding.outcome[t][ip] # NoSTPSolution}

TaskBest(t) ==
    CHOOSE c \in {bidding.outcome[t][ip] : ip \in FeasibleAt(t)} :
        \A ip \in FeasibleAt(t) : ~CostLT(bidding.outcome[t][ip], c)

BiddableTasks == {t \in bidding.tasks : FeasibleAt(t) # {}}

\* C11: handling a TaskAnnouncement, a bidder sends at most one real bid, the
\* smallest (cost, then task_id) of the best bids of the tasks that have a
\* feasible insertion point, whatever insertion points were infeasible, a
\* no-bid for exactly the announced tasks without feasible insertion point,
\* and nothing else
C11_BidsSent ==
    bidding.robot_id # NoRobot =>
        LET real == RealBids(bidding.sent)
            no_bids == NoBids(bidding.sent)
        IN  /\ Cardinality(real) <= 1
            /\ BiddableTasks = {} => real = {}
            /\ BiddableTasks # {} =>
                  \E b \in real :
                      /\ b.task_id \in BiddableTasks
                      /\ BidCost(b) = TaskBest(b.task_id)
                      /\ \A t \in BiddableTasks :
                            /\ ~CostLT(TaskBest(t), BidCost(b))
                            /\ TaskBest(t) = BidCost(b) => b.task_id <= t
            /\ {b.task_id : b \in no_bids} = bidding.tasks \ BiddableTasks
            /\ Cardinality(no_bids) = Cardinality(bidding.tasks \ BiddableTasks)
            /\ \A b \in bidding.sent :
                  b.robot_id = bidding.robot_id /\ b.round_id = bidding.round_id

\* ---- C12
\* C12: a robot that handles a TaskContract addressed to it for task T in
\* round R holds the bid it placed for T in round R, adopts the stn of that
\* bid, marks T ALLOCATED with itself assigned, and acknowledges
C12_AdoptsBidOfContract ==
    [][\A r \in RobotIds : \A c \in contract_net :
          (c.to = r /\ c.robot_id = r /\ c \notin contract_net') =>
              /\ bid_placed[r] # Null
              /\ bid_placed[r].task_id = c.task_id
              /\ bid_placed[r].round_id = c.round_id
              /\ timetable'[r] = bid_placed[r].stn
              /\ task_status'[c.task_id] = "ALLOCATED"
              /\ assigned_robots'[c.task_id] = <<r>>
              /\ \E a \in acks' \ acks : a.robot_id = r]_vars

\* ---- C13
\* the dispatchable graph is the solution of the stn
InSync(stn, graph) == graph = solve(stn)

\* C13: right after a robot has allocated a task to itself, and right after
\* the allocator has committed a winning bid to a robot's shadow timetable,
\* the dispatchable graph of that timetable is the solution of its stn
C13_GraphsInSync ==
    [][/\ \A r \in RobotIds :
            (\E a \in acks' \ acks : a.robot_id = r) =>
                InSync(timetable'[r], dispatchable_graph'[r])
       /\ contracts' # contracts =>
            InSync(shadow'[closing'.bid.robot_id],
                   shadow_graph'[closing'.bid.robot_id])]_vars

C13_Witness ==
    /\ closing.committed
    /\ shadow[closing.bid.robot_id] # <<>>
    /\ InSync(shadow[closing.bid.robot_id], shadow_graph[closing.bid.robot_id])
    /\ \E a \in acks :
          /\ a.robot_id = closing.bid.robot_id
          /\ a.round_id = closing.round_id
          /\ timetable[a.robot_id] # <<>>
          /\ InSync(timetable[a.robot_id], dispatchable_graph[a.robot_id])

\* ---- C14
\* the winner of the latest closing has handled the contract of that round
WinnerAcknowledged ==
    /\ closing.committed
    /\ \E a \in acks :
          /\ a.robot_id = closing.bid.robot_id
          /\ a.task_id = closing.bid.task_id
          /\ a.round_id = closing.round_id

\* C14: once a round has committed its winning bid and the winner has handled
\* the contract, the shadow timetable of the winner is the snapshot carried
\* by the winning bid, and so is the winner's own timetable
C14_ShadowIsSnapshot ==
    WinnerAcknowledged =>
        LET w == closing.bid.robot_id
        IN  /\ shadow[w] = closing.bid.stn
            /\ shadow_graph[w] = closing.bid.dispatchable_graph
            /\ timetable[w] = shadow[w]
            /\ dispatchable_graph[w] = shadow_graph[w]

\* ---- C15
\* C15: when the commit of the elected bid raises InvalidAllocation, the
\* shadow timetable of the robot, in memory and stored, is as before the
\* attempt, no contract is emitted and the task stays UNALLOCATED
C15_InvalidAllocationRollsBack ==
    [][(/\ closing' # closing
        /\ closing'.kind \in {"result", "AlternativeTimeSlot"}
        /\ ~closing'.committed) =>
            /\ shadow' = shadow
            /\ shadow_graph' = shadow_graph
            /\ shadow_store' = shadow_store
            /\ contracts' = contracts
            /\ contract_net' = contract_net
            /\ closing'.bid.task_id \in tasks_to_allocate'
            /\ task_status'[closing'.bid.task_id] = "UNALLOCATED"]_vars

\* ---- C16
\* C16: a timepoint that is executed stays executed, with the time it has,
\* as long as it is in the stn
C16_ExecutedIsFrozen ==
    [][\A k \in NodeKeys :
          (stn_nodes[k] # Absent /\ stn_nodes[k].executed /\ stn_nodes'[k] # Absent) =>
              /\ stn_nodes'[k].executed
              /\ stn_nodes'[k].time = stn_nodes[k].time]_vars

\* ---- C17
\* C17: once recovery has fired for a task in execution and its next task,
\* the later iterations of the loop for the same task in execution leave
\* the status and the place in the timetable of every other task as they are
C17_RecoveryFiresOnce ==
    [][\A pair \in robot_loop.fired :
          (robot_loop.status[pair[1]] = "ONGOING" /\
           robot_loop'.status[pair[1]] = "ONGOING") =>
              \A t \in LoopTasks \ {pair[2]} :
                  /\ robot_loop'.status[t] = robot_loop.status[t]
                  /\ t \in SeqRange(robot_loop.stn) => t \in SeqRange(robot_loop'.stn)]_vars

C19_Terminates == <>robot_loop.terminated

\* with the recovery methods that abort no task the controller terminates
C19_TerminatesWithoutAbort ==
    (robot_loop.recovery_method # "abort") => <>robot_loop.terminated

\* ---- C20
\* the place of a status in the lifecycle
Rank(status) ==
    CASE status = "UNALLOCATED" -> 0
      [] status = "ALLOCATED" -> 1
      [] status = "PLANNED" -> 2
      [] status = "DISPATCHED" -> 3
      [] status = "SCHEDULED" -> 4
      [] status = "ONGOING" -> 5
      [] OTHER -> 6

TerminalStatuses == {"COMPLETED", "ABORTED"}

\* C20: a status changes to a later status of the lifecycle or, by a
\* recovery, to UNALLOCATED, and a terminal status does not change
C20_StatusMovesForward ==
    [][\A t \in LoopTasks :
          robot_loop'.status[t] # robot_loop.status[t] =>
              /\ robot_loop.status[t] \notin TerminalStatuses
              /\ \/ Rank(robot_loop'.status[t]) > Rank(robot_loop.status[t])
                 \/ robot_loop'.status[t] = "UNALLOCATED"]_vars

\* ---- C21
\* the steps in which robot r writes the row of its timetable
RobotWrites(r) ==
    \/ TaskContractCb(r)
    \/ DispatchQueueUpdateCb(r)
    \/ \E t \in Tasks : Schedule(r, t)

\* the steps in which the allocator writes a row of its shadow timetables
AllocatorWrites == CloseRound \/ TaskStatusCb

Fires(c, n) == <<c, n>> \notin robot_loop.fired /\ <<c, n>> \in robot_loop'.fired

C23_Abort ==
    [][\A c, n \in LoopTasks :
          (robot_loop.recovery_method = "abort" /\ Fires(c, n)) =>
              /\ n \in SeqRange(robot_loop.stn)
              /\ n \notin SeqRange(robot_loop'.stn)
              /\ robot_loop'.status[n] = "ABORTED"
              /\ [task_id |-> n, status |-> "ABORTED"] \in robot_loop'.sent
              /\ robot_loop'.delayed = robot_loop.delayed
              /\ c \in SeqRange(robot_loop'.stn)
              /\ robot_loop'.status[c] = robot_loop.status[c]
              /\ \A t \in LoopTasks \ {n} :
                    robot_loop'.status[t] = robot_loop.status[t]]_vars

\* the abort method has fired for a task and its next task
C23_Witness ==
    /\ robot_loop.recovery_method = "abort"
    /\ \E c, n \in LoopTasks :
          /\ <<c, n>> \in robot_loop.fired
          /\ robot_loop.status[n] = "ABORTED"
          /\ robot_loop.status[c] = "ONGOING"
          /\ [task_id |-> n, status |-> "ABORTED"] \in robot_loop.sent

\* ---- C24
\* the insertion points of the bidder's timetable of k tasks that hold no
\* task past ALLOCATED, the append position k+1 among them
OpenPositions ==
    LET stn == timetable[bidding'.robot_id]
    IN  {i \in 1..(Len(stn) + 1) :
            i = Len(stn) + 1 \/ task_status[stn[i]] = "ALLOCATED"}

\* C24: handling a TaskAnnouncement, the bidder evaluates exactly the open
\* positions for each announced task, and the bid it sends has its insertion
\* point at one of them
C24_InsertionPointsTried ==
    [][bidding' # bidding =>
          /\ bidding'.tried = OpenPositions
          /\ \A b \in RealBids(bidding'.sent) : b.insertion_point \in OpenPositions]_vars

\* the same for the handlings that TaskNotFound does not end
C24_TriedWhenNotRaised ==
    [][(bidding' # bidding /\ ~bidding'.raised) =>
          /\ bidding'.tried = OpenPositions
          /\ \A b \in RealBids(bidding'.sent) : b.insertion_point \in OpenPositions]_vars

\* ---- C25
\* the timepoints a graph holds
Held(nodes) == {k \in NodeKeys : nodes[k] # Absent}

\* the stn and the dispatchable graph hold the timepoints of the same tasks
SameTasks(stn, graph) == SeqRange(stn) = SeqRange(graph.tasks)

\* every timetable, in memory and in the store, of a robot and of the
\* allocator, has the same timepoints in its stn and its dispatchable graph
IdenticalNodeSets ==
    /\ Held(stn_nodes) = Held(graph_nodes)
    /\ \A k \in Held(stn_nodes) : k[1] \in SeqRange(timetable[TheBidder])
    /\ \A r \in RobotIds :
          /\ SameTasks(timetable[r], dispatchable_graph[r])
          /\ SameTasks(robot_store[r].stn, robot_store[r].dispatchable_graph)
          /\ SameTasks(shadow[r], shadow_graph[r])
          /\ SameTasks(shadow_store[r].stn, shadow_store[r].dispatchable_graph)

\* C25: in every reachable state the stn and the dispatchable graph of a
\* timetable hold identical node sets, and a step of execute_edge drops from
\* both graphs the same timepoints, those before the start of the edge, and
\* leaves the timepoints it keeps executed or not in both alike
C25_IdenticalNodeSets ==
    /\ []IdenticalNodeSets
    /\ [][\A k \in NodeKeys : ExecuteEdge(k) =>
            /\ Held(stn_nodes) \ Held(stn_nodes') = Held(graph_nodes) \ Held(graph_nodes')
            /\ \A j \in Held(stn_nodes) \ Held(stn_nodes') :
                  \/ j[1] = k[1] /\ j[2] < k[2]
                  \/ Position(timetable[TheBidder], j[1]) <
                         Position(timetable[TheBidder], k[1])
            /\ \A j \in Held(stn_nodes') :
                  stn_nodes'[j].executed = graph_nodes'[j].executed]_vars

\* an edge has been executed after earlier timepoints were there to drop: the
\* first timepoint of a task is gone from both graphs, the executed second one
\* is in both
C25_Witness ==
    \E t \in Tasks :
        /\ stn_nodes[<<t, 1>>] = Absent /\ graph_nodes[<<t, 1>>] = Absent
        /\ stn_nodes[<<t, 2>>] # Absent /\ graph_nodes[<<t, 2>>] # Absent
        /\ stn_nodes[<<t, 2>>].executed /\ graph_nodes[<<t, 2>>].executed
        /\ stn_nodes[<<t, 3>>] # Absent /\ stn_nodes[<<t, 3>>].executed
        /\ Len(timetable[TheBidder]) = 2

\* ---- C26
\* C26: a commit that succeeds at an insertion point within the dispatch
\* window leaves send_update_to at the winning robot; a commit beyond the
\* window and a commit that raises InvalidAllocation leave send_update_to as
\* it was
C26_UpdateScheduledInWindow ==
    [][(closing' # closing /\ closing'.bid # Null) =>
          IF closing'.committed /\ closing'.bid.insertion_point <= NTasksQueue
          THEN send_update_to' = closing'.bid.robot_id
          ELSE send_update_to' = send_update_to]_vars

\* a commit beyond the dispatch window has succeeded while the update
\* scheduled last is for the other robot
C26_Witness ==
    /\ closing.committed
    /\ closing.bid.insertion_point > NTasksQueue
    /\ Len(shadow[closing.bid.robot_id]) > NTasksQueue
    /\ send_update_to \in RobotIds \ {closing.bid.robot_id}

\* ---- C27
\* C27: a new round is not opened and is finished; a started round is opened
\* and not finished; no round is both opened and finished; within a round
\* opened never comes back and finished is never taken back; the election
\* takes place on a round that was open, is due and is closed by it, and
\* finishes it; a round is made only when the round before it is finished
C27_RoundLifecycle ==
    /\ (~round.opened /\ round.finished)
    /\ [](~(round.opened /\ round.finished))
    /\ [][/\ round'.id # round.id =>
                /\ round.finished /\ ~round.opened
                /\ round'.opened /\ ~round'.finished
          /\ round'.id = round.id =>
                /\ round'.opened => round.opened
                /\ round.finished => round'.finished
          /\ (closing' # closing /\ closing'.kind # "none") =>
                /\ round.opened /\ ~round.finished
                /\ now >= round.closure_time
                /\ closing'.round_id = round.id /\ round'.id = round.id
                /\ ~round'.opened /\ round'.finished]_vars

\* a second round has been started after the first one was finished, and has
\* gone through its election
C27_Witness ==
    /\ round.id = 2
    /\ closing.round_id = 2
    /\ round.finished /\ ~round.opened
    /\ Len(contracts) = 2

\* ---- C28
\* an open round whose closure time the clock has reached
Due == round.opened /\ now >= round.closure_time

\* C28: for a due round time_to_close returns True and sets opened to False,
\* whatever bids the round has received; closing it finishes it; and every
\* open round is eventually closed and finished
C28_RoundCloses ==
    /\ [](Due => /\ time_to_close(round, now).ret
                 /\ ~time_to_close(round, now).round.opened)
    /\ [][(Due /\ round' # round /\ processed' = processed) =>
              ~round'.opened /\ round'.finished]_vars
    /\ \A id \in 1..MaxRounds :
          (round.id = id /\ round.opened) ~>
              (round.id = id /\ ~round.opened /\ round.finished)

\* a round closed and finished without having received any bid or no-bid
C28_Witness ==
    /\ round.id >= 1
    /\ round.finished /\ ~round.opened
    /\ closing.round_id = round.id
    /\ processed = {}
    /\ DOMAIN round.received_bids = {} /\ DOMAIN round.received_no_bids = {}

\* a round closed and finished after no-bids only, from one robot only
C28_WitnessNoBids ==
    /\ round.finished /\ closing.round_id = round.id
    /\ processed # {}
    /\ RealBids(processed) = {}
    /\ Cardinality({b.robot_id : b \in processed}) = 1

\* ---- C29
RECURSIVE Total(_, _)
\* the sum of w over the set S
Total(S, w) ==
    IF S = {} THEN 0
    ELSE LET x == CHOOSE y \in S : TRUE IN w[x] + Total(S \ {x}, w)

\* the finish time of the last completed action of the task in execution, or
\* the task's start time when no action is completed
LastKnownTime(m) ==
    LET completed == {i \in DOMAIN m.actions : m.actions[i].status = "COMPLETED"}
    IN  IF completed = {} THEN m.stn_time["start"]
        ELSE m.stn_time[FinishNode[CHOOSE i \in completed :
                                       \A j \in completed : j <= i]]

\* the ONGOING and PLANNED actions of the task in execution
Remaining(m) ==
    {i \in DOMAIN m.actions : m.actions[i].status \in {"ONGOING", "PLANNED"}}

RemainingMean(m) == Total(Remaining(m), [i \in DOMAIN m.actions |-> m.actions[i].mean])

RemainingVariance(m) ==
    Total(Remaining(m), [i \in DOMAIN m.actions |-> m.actions[i].variance])

\* last_known_time + mean + 2 * sqrt(variance) > latest_start, in thousandths
\* and without rounding: 2000 * sqrt(variance) > slack
LateExactly(m) ==
    LET slack == m.latest_start_next - LastKnownTime(m) - RemainingMean(m)
    IN  slack < 0 \/ 4000000 * RemainingVariance(m) > slack * slack

\* the same with the square root rounded to the nearest thousandth
LateRounded(m) ==
    \E s \in 0..5000 :
        /\ (2 * s - 1) * (2 * s - 1) <= 4000000 * RemainingVariance(m) \/ s = 0
        /\ 4000000 * RemainingVariance(m) < (2 * s + 1) * (2 * s + 1)
        /\ LastKnownTime(m) + RemainingMean(m) + 2 * s > m.latest_start_next

\* is_next_task_late leaves the times of both graphs as they were
LateReadsOnly ==
    [][monitor'.call = "is_next_task_late" =>
          /\ monitor'.stn_time = monitor.stn_time
          /\ monitor'.finish_current = monitor.finish_current
          /\ monitor'.earliest_start_next = monitor.earliest_start_next
          /\ monitor'.latest_start_next = monitor.latest_start_next
          /\ monitor'.actions = monitor.actions]_vars

\* C29 as stated: is_next_task_late returns true if and only if
\* last_known_time + sum of means + 2 * sqrt(sum of variances), over the
\* ONGOING and PLANNED actions, is strictly greater than latest_start(next),
\* and the call modifies neither graph
C29_LateIffExceeds ==
    /\ [](monitor.call = "is_next_task_late" =>
              (monitor.ret <=> LateExactly(monitor)))
    /\ LateReadsOnly

\* C29 amended: the same with the square root of the variance rounded to
\* three decimals before it is doubled and added
C29_LateIffExceedsRounded ==
    /\ [](monitor.call = "is_next_task_late" =>
              (monitor.ret <=> LateRounded(monitor)))
    /\ LateReadsOnly

\* the next task is found not late with the estimated start equal to its
\* latest start, the variance not being a square
C29_Witness ==
    /\ monitor.call = "is_next_task_late"
    /\ ~monitor.ret
    /\ RemainingVariance(monitor) = 2
    /\ LastKnownTime(monitor) + RemainingMean(monitor) + 2828 = monitor.latest_start_next
    /\ \E i \in DOMAIN monitor.actions : monitor.actions[i].status = "COMPLETED"

\* ---- C30
\* C30: is_next_task_invalid returns true if and only if latest_start(next) <
\* scheduled_finish(current) and then leaves the graph as it is; returning
\* false with earliest_start(next) < scheduled_finish(current) it sets
\* earliest_start(next) to scheduled_finish(current) and changes nothing
\* else; otherwise the graph is unchanged
C30_InvalidIffTooLate ==
    [][monitor'.call = "is_next_task_invalid" =>
          /\ monitor'.ret <=> monitor.latest_start_next < monitor.finish_current
          /\ monitor'.latest_start_next = monitor.latest_start_next
          /\ monitor'.finish_current = monitor.finish_current
          /\ monitor'.stn_time = monitor.stn_time
          /\ monitor'.actions = monitor.actions
          /\ monitor'.earliest_start_next =
                IF /\ ~monitor'.ret
                   /\ monitor.earliest_start_next < monitor.finish_current
                THEN monitor.finish_current
                ELSE monitor.earliest_start_next]_vars

\* a valid next task whose earliest start time has been moved to the finish
\* time of the task in execution
C30_Witness ==
    /\ monitor.call = "is_next_task_invalid"
    /\ ~monitor.ret
    /\ monitor.earliest_start_next = monitor.finish_current
    /\ monitor.earliest_start_next \notin EarliestStarts
    /\ monitor.latest_start_next >= monitor.finish_current

\* ---- C31
\* the timepoint a call of assign_timepoint names
CalledNode == <<last_call'.args[2], Position(NodeTypes, last_call'.args[3])>>

\* C31: a call of assign_timepoint that raises InconsistentAssignment leaves
\* the stn and the dispatchable graph exactly as before; one that does not
\* raise gives the timepoint the assigned time in the stn and changes no
\* other timepoint and not the dispatchable graph
C31_AssignOnCopyFirst ==
    [][(last_call' # last_call /\ last_call'.op = "assign_timepoint") =>
          /\ timetable' = timetable
          /\ dispatchable_graph' = dispatchable_graph
          /\ graph_nodes' = graph_nodes
          /\ \A j \in NodeKeys \ {CalledNode} : stn_nodes'[j] = stn_nodes[j]
          /\ IF last_call'.raised
             THEN stn_nodes' = stn_nodes
             ELSE stn_nodes'[CalledNode].time = last_call'.args[1]]_vars

\* InconsistentAssignment has been raised for a timepoint that holds the
\* other time, assigned by an earlier call
C31_Witness ==
    /\ last_call.op = "assign_timepoint"
    /\ last_call.raised
    /\ LET k == <<last_call.args[2], Position(NodeTypes, last_call.args[3])>>
       IN  /\ stn_nodes[k] # Absent
           /\ stn_nodes[k].time # None
           /\ stn_nodes[k].time # last_call.args[1]

\* ---- C32
\* the tasks other than task_id are in seq in the order they have in before,
\* and the task that followed task_id follows the task that preceded it
Restitched(before, seq, task_id) ==
    /\ SeqRange(seq) = SeqRange(before) \ {task_id}
    /\ Len(seq) = Len(before) - 1
    /\ \A i, j \in 1..Len(seq) :
          i < j => Position(before, seq[i]) < Position(before, seq[j])
    /\ \A i \in 2..(Len(before) - 1) :
          before[i] = task_id =>
              \E j \in 1..(Len(seq) - 1) :
                  seq[j] = before[i - 1] /\ seq[j + 1] = before[i + 1]

\* C32: remove_task of a task with one to three timepoints in the timetable
\* leaves no timepoint of it in either graph, keeps the other tasks and their
\* timepoints in their order and makes its successor follow its predecessor;
\* remove_task of a task that is not in the timetable changes neither graph
C32_RemoveTask ==
    [][last_call'.op = "remove_task" =>
          LET task_id == last_call'.args[1]
          IN  IF task_id \in SeqRange(timetable[TheBidder])
              THEN /\ Restitched(timetable[TheBidder], timetable'[TheBidder], task_id)
                   /\ Restitched(dispatchable_graph[TheBidder].tasks,
                                 dispatchable_graph'[TheBidder].tasks, task_id)
                   /\ \A k \in RemoveKeys :
                         IF k[1] = task_id
                         THEN stn_nodes'[k] = Absent /\ graph_nodes'[k] = Absent
                         ELSE /\ stn_nodes'[k] = stn_nodes[k]
                              /\ graph_nodes'[k] = graph_nodes[k]
              ELSE /\ timetable' = timetable
                   /\ dispatchable_graph' = dispatchable_graph
                   /\ stn_nodes' = stn_nodes
                   /\ graph_nodes' = graph_nodes]_vars

\* the middle one of three tasks has been removed
C32_Witness ==
    /\ last_call.op = "remove_task"
    /\ Len(timetable[TheBidder]) = 2
    /\ last_call.args[1] \notin SeqRange(timetable[TheBidder])
    /\ timetable[TheBidder][1] < last_call.args[1]
    /\ last_call.args[1] < timetable[TheBidder][2]
    /\ \A i \in 1..3 : stn_nodes[<<timetable[TheBidder][1], i>>] # Absent

\* ---- C33
\* C33: the closing of a round sets to soft exactly the hard tasks that have
\* an entry in received_no_bids and none in received_bids, and only with
\* alternative_timeslots on; no other step changes a task's constraints
C33_RelaxedExactly ==
    [][IF round.opened /\ round'.finished
       THEN \A t \in Tasks :
               hard_constraints'[t] =
                   (/\ hard_constraints[t]
                    /\ ~(/\ round.alternative_timeslots
                         /\ t \in DOMAIN round.received_no_bids
                         /\ t \notin DOMAIN round.received_bids))
       ELSE hard_constraints' = hard_constraints]_vars

\* a round has closed with a no-bid and a bid for one task and only a no-bid
\* for the other, which alone is soft
C33_Witness ==
    /\ round.finished
    /\ round.alternative_timeslots
    /\ \E t, u \in Tasks :
          /\ t \in DOMAIN round.received_no_bids
          /\ t \in DOMAIN round.received_bids
          /\ hard_constraints[t]
          /\ u \in DOMAIN round.received_no_bids
          /\ u \notin DOMAIN round.received_bids
          /\ ~hard_constraints[u]

\* ---- C34
\* C34 as stated: a bidder without a planner is never stopped by the missing
\* planner; when its handling goes through it has evaluated every open
\* position, insertion point 1 among them, with the travel time mean=1,
\* variance=0.1
C34_NoPlannerStillBids ==
    [][(bidding' # bidding /\ ~bidding'.planner) =>
          /\ bidding'.error # "AttributeError"
          /\ ~bidding'.raised =>
                /\ bidding'.tried = OpenPositions
                /\ bidding'.travel_time = [mean |-> 10, variance |-> 1]]_vars

\* the same for a bidder without a planner whose handling no exception ends
C34_SentinelWhenNotRaised ==
    [][(bidding' # bidding /\ ~bidding'.planner /\ ~bidding'.raised) =>
          /\ bidding'.tried = OpenPositions
          /\ bidding'.travel_time = [mean |-> 10, variance |-> 1]]_vars

\* ---- C35
\* the zero timepoint a timetable reports: the ztp it stores, sends in its
\* updates and offsets its times by
Reported(tt) == tt.ztp

Coherent ==
    /\ zero_timepoint'.op = "zero_timepoint" =>
          /\ ~zero_timepoint'.raised
          /\ \A r \in DOMAIN zero_timepoint'.manager :
                Reported(zero_timepoint'.manager[r]) = zero_timepoint'.time
    /\ zero_timepoint'.op = "task_announcement_cb" =>
          Reported(zero_timepoint'.robots[zero_timepoint'.robot_id]) = zero_timepoint'.time

\* C35 as stated: once the manager's zero timepoint is set every registered
\* timetable reports it, and once a bidder has handled a TaskAnnouncement its
\* timetable reports the zero timepoint of the announcement
C35_ZtpCoherence ==
    [][zero_timepoint' # zero_timepoint => Coherent]_vars

\* the same where the base class of Timetable makes zero_timepoint and
\* update_zero_timepoint other names of ztp and update_ztp
C35_ZtpCoherenceWithAlias ==
    [][(zero_timepoint' # zero_timepoint /\ zero_timepoint.alias) => Coherent]_vars

\* ---- C36
\* C36 as stated: the bids a round holds in received_bids carry the id of
\* that round, and so does the bid a closing elects
C36_OwnRoundOnly ==
    /\ \A t \in DOMAIN round.received_bids :
          round.received_bids[t].round_id = round.id
    /\ closing.bid # Null => closing.bid.round_id = closing.round_id

\* ---- C37
\* C37: a robot that handles a TaskContract naming another robot keeps its
\* stn, its dispatchable graph, its stored timetable and its bid_placed, no
\* task record changes, and no TaskContractAcknowledgment is emitted
C37_ForeignContractIgnored ==
    [][\A c \in contract_net :
          (c.to \in RobotIds /\ c.robot_id # c.to /\ c \notin contract_net') =>
              /\ timetable'[c.to] = timetable[c.to]
              /\ dispatchable_graph'[c.to] = dispatchable_graph[c.to]
              /\ robot_store'[c.to] = robot_store[c.to]
              /\ bid_placed'[c.to] = bid_placed[c.to]
              /\ task_status' = task_status
              /\ assigned_robots' = assigned_robots
              /\ acks' = acks]_vars

\* a robot that had placed a bid has handled the contract of the other robot,
\* before the winner has
C37_Witness ==
    \E i \in 1..Len(contracts), r \in RobotIds :
        LET c == contracts[i]
            msg(x) == [to |-> x, task_id |-> c.task_id, robot_id |-> c.robot_id,
                       round_id |-> c.round_id]
        IN  /\ c.robot_id # r
            /\ bid_placed[r] # Null
            /\ msg(r) \notin contract_net
            /\ msg(c.robot_id) \in contract_net
            /\ task_status[c.task_id] = "UNALLOCATED"

\* ---- C38
\* C38: a task becomes SCHEDULED only from DISPATCHED and with
\* queue_update_received set; under the re-schedule method a PLANNED action is
\* executed only with queue_update_received set; executing an action leaves
\* queue_update_received False; a task becomes ONGOING only from SCHEDULED
C38_LoopGating ==
    [][/\ \A t \in LoopTasks :
             /\ (robot_loop'.status[t] = "SCHEDULED" /\ robot_loop.status[t] # "SCHEDULED") =>
                    robot_loop.status[t] = "DISPATCHED" /\ robot_loop.queue_update_received
             /\ (robot_loop'.status[t] = "ONGOING" /\ robot_loop.status[t] # "ONGOING") =>
                    robot_loop.status[t] = "SCHEDULED"
       /\ (last_call' # last_call /\ last_call'.op = "execute_action") =>
             /\ robot_loop.status[last_call'.args[1]] = "ONGOING"
             /\ (last_call'.args[2] = "PLANNED" /\ robot_loop.recovery_method = "re-schedule-1")
                    => robot_loop.queue_update_received
             /\ ~robot_loop'.queue_update_received]_vars

\* under the re-schedule method a PLANNED action has just been executed and
\* the update is consumed: a task still DISPATCHED waits for the next one
C38_Witness ==
    /\ last_call.op = "execute_action"
    /\ last_call.args[2] = "PLANNED"
    /\ robot_loop.recovery_method = "re-schedule-1"
    /\ ~robot_loop.queue_update_received
    /\ \E t \in LoopTasks : robot_loop.status[t] = "DISPATCHED"

\* ---- C39
\* graph holds the tasks of own and of received, those of received in the
\* order received has them and the others in the order own has them
MergedInto(own, received, graph) ==
    /\ SeqRange(graph) = SeqRange(own) \cup SeqRange(received)
    /\ Len(graph) = Cardinality(SeqRange(graph))
    /\ SelectSeq(graph, LAMBDA t : t \in SeqRange(received)) = received
    /\ SelectSeq(graph, LAMBDA t : t \notin SeqRange(received)) =
           SelectSeq(own, LAMBDA t : t \notin SeqRange(received))

====
